---- MODULE Spec2Model ----
(***************************************************************************)
(* A model of the handshake chat engine: the signed-pointer (hashmap)       *)
(* rendezvous backend, the one-time lookup table, and the Session's         *)
(* SendMessage / RetrieveMessages protocol over a local KV, a blob network  *)
(* and a rendezvous service.                                                *)
(*                                                                          *)
(* Time is counted in units of 10^9 ns, so the 5 * 1000000000 ns window of  *)
(* updateLatest is FutureSkew = 5 units.  Strings that the code compares    *)
(* or searches (content hashes, chat-log keys) are sequences of ASCII       *)
(* codes.                                                                   *)
(***************************************************************************)
EXTENDS Integers, Sequences, FiniteSets, TLC

VARIABLES
    now,        \* wall clock, time.Now()
    ipfs,       \* blob network: sequence of published blobs, hash n names ipfs[n]
    hm,         \* rendezvous service: per signer, every envelope ever published
    chatKV,     \* local KV, chats/{chat}/{profile}/config, per session
    lookupKV,   \* local KV, chats/{chat}/{profile}/lookups/{peer}, per session
    logKV,      \* local KV, chats/{chat}/{profile}/chatlog, per session
    th,         \* per goroutine: the call in flight and its local variables
    faults,     \* number of requests and calls that have failed so far
    seen,       \* per session: envelopes each peer had published when its last
                \* RetrieveMessages started
    hwm,        \* per session and peer: the highest timestamp a round has accepted
    since,      \* per session, where kept: the failures there had been when
                \* its last RetrieveMessages started, -1 before the first
    store,      \* a hashmapStorage object read in isolation (its Latest)
    rd          \* the last Get on store: nodes' answers, Latest before, result

vars == <<now, ipfs, hm, chatKV, lookupKV, logKV, th, faults, seen, hwm, since, store, rd>>

sessVars == <<ipfs, hm, chatKV, lookupKV, logKV, th, faults, seen, hwm, since>>

-----------------------------------------------------------------------------
(* Bounds *)

MaxTime == 2        \* the clock runs from 1 to MaxTime
MaxNodes == 2       \* read nodes of the isolated hashmapStorage
MaxBlobs == 2       \* blobs published to the blob network
MaxFaults == 2      \* requests and calls allowed to fail

LookupCount == 5    \* the count handed to genLookups: a table of LookupCount - 1 entries
MaxLog == 3         \* entries of a chat log filled entry by entry
MaxCalls == 2       \* calls of NewChat by one session
MaxProfiles == 2    \* profiles in the local store
MaxCount == 3       \* the count genLookups is called with
MaxData == 3        \* bytes of a plaintext given to the cipher

(* Program constants *)

FutureSkew == 5
defaultChatTTL == 604800
maxMessageSize == 250000
DefaultSessionTTL == 900
lookupHashLength == 24
secretBoxKeyLength == 32
secretBoxNonceLength == 24
secretBoxDecryptionOffset == 40

Nil == <<>>

\* the peer ids that exist; a chat is among some of them (chat.Peers)
Peers == {"p", "q", "r"}

Threads == {1, 2}

-----------------------------------------------------------------------------
(* storage_hashmap.go *)

\* updateLatest with the stale test dropped.
updateLatest_NoStaleCheck(Latest, timeStamp, clock) ==
    IF timeStamp > clock + FutureSkew
    THEN [err |-> "invalid future timestamp", Latest |-> Latest]
    ELSE [err |-> "", Latest |-> timeStamp]

\* updateLatest rejecting a timestamp equal to Latest.
updateLatest_RejectEqual(Latest, timeStamp, clock) ==
    IF timeStamp > clock + FutureSkew
    THEN [err |-> "invalid future timestamp", Latest |-> Latest]
    ELSE IF Latest >= timeStamp
         THEN [err |-> "stale timestamp", Latest |-> Latest]
         ELSE [err |-> "", Latest |-> timeStamp]

\* func (s *hashmapStorage) updateLatest(timeStamp int64) error
updateLatest(Latest, timeStamp, clock) ==
    IF timeStamp > clock + FutureSkew
    THEN [err |-> "invalid future timestamp", Latest |-> Latest]
    ELSE IF Latest > timeStamp
         THEN [err |-> "stale timestamp", Latest |-> Latest]
         ELSE [err |-> "", Latest |-> timeStamp]

\* What one read node does when asked: the URL it is configured with, whether
\* the HTTP request goes through, and the envelope it answers with.
\*   urlOK   url.Parse succeeds           mhOK   isHashmapMultihash(urlHash)
\*   httpOK  http.Get returns no error    parseOK hashmap.NewPayloadFromReader
\*   pubOK   payload.PubKeyBytes          pub    base58Multihash(pubkey)
\*   dataOK  payload.GetData              ts     data.Timestamp
\*   msgOK   data.MessageBytes            msg    the message bytes
Answer(urlHash, pub, ts, msg) ==
    [urlOK |-> TRUE, mhOK |-> TRUE, urlHash |-> urlHash, httpOK |-> TRUE,
     parseOK |-> TRUE, pubOK |-> TRUE, pub |-> pub, dataOK |-> TRUE,
     ts |-> ts, msgOK |-> TRUE, msg |-> msg]

Unreachable(urlHash) ==
    [Answer(urlHash, urlHash, 0, Nil) EXCEPT !.httpOK = FALSE]

RECURSIVE getFirstSuccess_LatestFirst(_, _, _)
\* getFirstSuccess advancing Latest before comparing the payload's key to the URL.
getFirstSuccess_LatestFirst(nodes, Latest, clock) ==
    IF nodes = <<>> THEN [err |-> "no servers available", bytes |-> Nil, Latest |-> Latest]
    ELSE LET node == Head(nodes) IN
      IF ~node.urlOK THEN [err |-> "invalid url", bytes |-> Nil, Latest |-> Latest]
      ELSE IF ~node.mhOK THEN [err |-> "invalid hashmap endpoint", bytes |-> Nil, Latest |-> Latest]
      ELSE IF ~node.httpOK \/ ~node.parseOK
           THEN getFirstSuccess_LatestFirst(Tail(nodes), Latest, clock)
      ELSE IF ~node.pubOK THEN [err |-> "invalid pubkey in payload", bytes |-> Nil, Latest |-> Latest]
      ELSE IF ~node.dataOK THEN [err |-> "get data", bytes |-> Nil, Latest |-> Latest]
      ELSE LET u == updateLatest(Latest, node.ts, clock) IN
        IF u.err # "" THEN [err |-> u.err, bytes |-> Nil, Latest |-> u.Latest]
        ELSE IF node.urlHash # node.pub
             THEN [err |-> "payload and endpoint hash mismatch", bytes |-> Nil, Latest |-> u.Latest]
        ELSE IF ~node.msgOK THEN [err |-> "message bytes", bytes |-> Nil, Latest |-> u.Latest]
        ELSE [err |-> "", bytes |-> node.msg, Latest |-> u.Latest]

RECURSIVE getFirstSuccess(_, _, _)
\* func (s *hashmapStorage) getFirstSuccess() ([]byte, error)
getFirstSuccess(nodes, Latest, clock) ==
    IF nodes = <<>> THEN [err |-> "no servers available", bytes |-> Nil, Latest |-> Latest]
    ELSE LET node == Head(nodes) IN
      IF ~node.urlOK THEN [err |-> "invalid url", bytes |-> Nil, Latest |-> Latest]
      ELSE IF ~node.mhOK THEN [err |-> "invalid hashmap endpoint", bytes |-> Nil, Latest |-> Latest]
      ELSE IF ~node.httpOK \/ ~node.parseOK
           THEN getFirstSuccess(Tail(nodes), Latest, clock)
      ELSE IF ~node.pubOK THEN [err |-> "invalid pubkey in payload", bytes |-> Nil, Latest |-> Latest]
      ELSE IF node.urlHash # node.pub
           THEN [err |-> "payload and endpoint hash mismatch", bytes |-> Nil, Latest |-> Latest]
      ELSE IF ~node.dataOK THEN [err |-> "get data", bytes |-> Nil, Latest |-> Latest]
      ELSE LET u == updateLatest(Latest, node.ts, clock) IN
        IF u.err # "" THEN [err |-> u.err, bytes |-> Nil, Latest |-> u.Latest]
        ELSE IF ~node.msgOK THEN [err |-> "message bytes", bytes |-> Nil, Latest |-> u.Latest]
        ELSE [err |-> "", bytes |-> node.msg, Latest |-> u.Latest]

\* func (s *hashmapStorage) Get(key string) ([]byte, error), ReadRule firstSuccess
hashmapGet(nodes, Latest, clock) ==
    IF Len(nodes) < 1
    THEN [err |-> "no read nodes configured", bytes |-> Nil, Latest |-> Latest]
    ELSE getFirstSuccess(nodes, Latest, clock)

-----------------------------------------------------------------------------
(* Strings *)

RECURSIVE Digits(_)
\* fmt.Sprintf("%v", n) for an int64, as ASCII codes
Digits(n) ==
    IF n < 0 THEN <<45>> \o Digits(0 - n)
    ELSE IF n < 10 THEN <<48 + n>>
    ELSE Digits(n \div 10) \o <<48 + (n % 10)>>

\* strings.Contains(s, sub)
Contains(s, sub) ==
    \E i \in 0..(Len(s) - Len(sub)) : SubSeq(s, i + 1, i + Len(sub)) = sub

\* The content hash the blob network reports for its n-th blob ("Qm...").
HashOf(n) == <<81, 109>> \o Digits(n)

-----------------------------------------------------------------------------
(* crypto.go *)

\* genLookups: entries for i = 1 .. count-1; entry i maps the i-th 24-byte slice
\* of the tag stream to the i-th 32-byte slice of the key stream of that peer.
genLookups(peer, count) ==
    [tag \in {<<peer, i>> : i \in 1..(count - 1)} |-> <<"key", tag[1], tag[2]>>]

\* SecretBoxCipher.Encrypt: a key that is not 32 bytes long (here: the empty key)
\* is refused; the ciphertext opens only under the key that sealed it.
Encrypt(data, key) ==
    IF key = Nil THEN [err |-> "invalid key length", ct |-> Nil]
    ELSE [err |-> "", ct |-> <<key, data>>]

\* A ciphertext whose last chunk is shorter than the 24-byte nonce.
ShortChunk == <<"short chunk">>

\* SecretBoxCipher.Decrypt: the key is checked, then every chunk is cut into
\* nonce and box (chunk[secretBoxNonceLength:], which panics on a chunk shorter
\* than the nonce) and opened.  No chunk at all opens to no data at all.
Decrypt(ct, key) ==
    IF key = Nil THEN [err |-> "invalid key length", data |-> Nil]
    ELSE IF ct = Nil THEN [err |-> "", data |-> Nil]
    ELSE IF ct = ShortChunk THEN [err |-> "panic", data |-> Nil]
    ELSE IF ct[1] # key THEN [err |-> "decrypt failed", data |-> Nil]
    ELSE [err |-> "", data |-> ct[2]]

-----------------------------------------------------------------------------
(* chat.go: lookup and ChatLog *)

\* func (l lookup) get(key string) []byte
get(l, key) == IF key \in DOMAIN l THEN l[key] ELSE Nil

\* delete that takes some entry out when the key is not there.
delete_Some(l, key) ==
    IF key \in DOMAIN l \/ DOMAIN l = {}
    THEN [k \in DOMAIN l \ {key} |-> l[k]]
    ELSE [k \in DOMAIN l \ {CHOOSE any \in DOMAIN l : TRUE} |-> l[k]]

\* delete(*l, key)
delete(l, key) == [k \in DOMAIN l \ {key} |-> l[k]]

\* popKey that pops some entry when the key is not in the table.
popKey_Any(l, key) ==
    IF key \in DOMAIN l \/ DOMAIN l = {}
    THEN [v |-> get(l, key), l |-> delete(l, key)]
    ELSE LET any == CHOOSE k \in DOMAIN l : TRUE IN [v |-> l[any], l |-> delete(l, any)]

\* popKey that hands out the key and leaves the entry in the table.
popKey_NoDelete(l, key) == [v |-> get(l, key), l |-> l]

\* func (l *lookup) popKey(key string) []byte
popKey(l, key) == [v |-> get(l, key), l |-> delete(l, key)]

\* func (cl ChatLog) HashInLog(hash string) bool
HashInLog(cl, hash) == \E entry \in DOMAIN cl : Contains(entry, hash)

\* the key AddEntry files an entry under: fmt.Sprintf("%v-%v", timestamp, entry.ID)
LogKey(timestamp, id) == Digits(timestamp) \o <<45>> \o id

\* AddEntry that files every entry under one and the same key.
AddEntry_OneKey(cl, entry) ==
    IF entry.Sent = 0 /\ entry.Received = 0
    THEN [err |-> "no valid timestamp found", cl |-> cl]
    ELSE LET key == Digits(0) IN
         [err |-> "",
          cl |-> [k \in DOMAIN cl \cup {key} |-> IF k = key THEN entry ELSE cl[k]]]

\* func (cl *ChatLog) AddEntry(entry ChatLogEntry) error
AddEntry(cl, entry) ==
    IF entry.Sent = 0 /\ entry.Received = 0
    THEN [err |-> "no valid timestamp found", cl |-> cl]
    ELSE LET timestamp == IF entry.Sent = 0 THEN entry.Received ELSE entry.Sent
             key == LogKey(timestamp, entry.ID)
         IN [err |-> "",
             cl |-> [k \in DOMAIN cl \cup {key} |-> IF k = key THEN entry ELSE cl[k]]]

\* the entry that carries no id.
ChatLogEntry_NoID(id, sender, data) ==
    [ID |-> Nil, Sender |-> sender, Sent |-> data.Timestamp, Received |-> 0,
     TTL |-> data.TTL, Data |-> data]

ChatLogEntry(id, sender, data) ==
    [ID |-> id, Sender |-> sender, Sent |-> data.Timestamp, Received |-> 0,
     TTL |-> data.TTL, Data |-> data]

RECURSIVE StringLess(_, _)
\* a < b for Go strings: byte by byte, a proper prefix first
StringLess(a, b) ==
    IF b = <<>> THEN FALSE
    ELSE IF a = <<>> THEN TRUE
    ELSE IF a[1] # b[1] THEN a[1] < b[1]
    ELSE StringLess(Tail(a), Tail(b))

\* func (cl ChatLog) Sorted() []ChatLogEntry: sort.Strings on the keys
Sorted(cl) ==
    LET place(key) == 1 + Cardinality({k \in DOMAIN cl : StringLess(k, key)}) IN
    [i \in 1..Cardinality(DOMAIN cl) |-> cl[CHOOSE key \in DOMAIN cl : place(key) = i]]

\* the ids of the entries of a chat log
LogIDs(cl) == {cl[k].ID : k \in DOMAIN cl}

-----------------------------------------------------------------------------
(* storage.go, session.go, storage_hashmap.go: the consensus rules of the
   blob storage (ipfsStorage) and of the signed-pointer storage *)

\* type consensusRule
Rules == {"firstSuccess", "redundantPairSuccess", "majoritySuccess", "unanimousSuccess"}

\* What a node of a blob storage, or a write node of a pointer storage, does
\* when asked: whether its URL parses, whether the HTTP request goes through,
\* the status it answers with, the body and the Ipfs-Hash header of the answer.
Node(urlOK, connOK, status, body, hash) ==
    [urlOK |-> urlOK, connOK |-> connOK, status |-> status, body |-> body, hash |-> hash]

\* what a call on a storage object gives back, the node it took it from (0 for
\* none) and the number of HTTP requests it made
Result(err, bytes, hash, from, tried) ==
    [err |-> err, bytes |-> bytes, hash |-> hash, from |-> from, tried |-> tried]

\* the HTTP requests made on the first upto nodes: one to each whose URL parses
Requests(nodes, upto) == Cardinality({j \in 1..upto : nodes[j].urlOK})

\* func getFromIPFS(n node, hash string) ([]byte, error): an unparsable URL is
\* an error; the error of client.Do is not looked at and resp.Body of the nil
\* response is dereferenced; the status of the response is not looked at.
getFromIPFS(n) ==
    IF ~n.urlOK THEN [err |-> "parse", bytes |-> Nil]
    ELSE IF ~n.connOK THEN [err |-> "panic", bytes |-> Nil]
    ELSE [err |-> "", bytes |-> n.body]

RECURSIVE ipfs_getFirstSuccess(_, _)
\* func (s *ipfsStorage) getFirstSuccess(hash string) ([]byte, error), from node i on
ipfs_getFirstSuccess(nodes, i) ==
    IF i > Len(nodes)
    THEN Result("no servers available", Nil, Nil, 0, Requests(nodes, Len(nodes)))
    ELSE LET r == getFromIPFS(nodes[i]) IN
         IF r.err = "panic" THEN Result("panic", Nil, Nil, 0, Requests(nodes, i))
         ELSE IF r.err # "" THEN ipfs_getFirstSuccess(nodes, i + 1)
         ELSE Result("", r.bytes, Nil, i, Requests(nodes, i))

\* func (s ipfsStorage) Get(key string) ([]byte, error)
ipfsStorage_Get(rule, nodes) ==
    IF Len(nodes) < 1 THEN Result("no read nodes configured", Nil, Nil, 0, 0)
    ELSE IF rule = "firstSuccess" THEN ipfs_getFirstSuccess(nodes, 1)
    ELSE Result("This readRule is not yet implemented", Nil, Nil, 0, 0)

\* func postToIPFS(n node, body []byte) (string, error), query type default:
\* the Ipfs-Hash header of whatever response there is
postToIPFS(n) ==
    IF ~n.urlOK THEN [err |-> "parse", hash |-> Nil]
    ELSE IF ~n.connOK THEN [err |-> "do", hash |-> Nil]
    ELSE [err |-> "", hash |-> n.hash]

RECURSIVE ipfs_setFirstSuccess(_, _)
\* func (s ipfsStorage) setFirstSuccess(body []byte) (string, error), from node i on
ipfs_setFirstSuccess(nodes, i) ==
    IF i > Len(nodes)
    THEN Result("no servers available", Nil, Nil, 0, Requests(nodes, Len(nodes)))
    ELSE LET r == postToIPFS(nodes[i]) IN
         IF r.err # "" THEN ipfs_setFirstSuccess(nodes, i + 1)
         ELSE Result("", Nil, r.hash, i, Requests(nodes, i))

\* func (s ipfsStorage) Set(key string, value []byte) (string, error)
ipfsStorage_Set(rule, nodes) ==
    IF Len(nodes) < 1 THEN Result("no write nodes configured", Nil, Nil, 0, 0)
    ELSE IF rule = "firstSuccess" THEN ipfs_setFirstSuccess(nodes, 1)
    ELSE Result("This writeRule is not yet implemented", Nil, Nil, 0, 0)

RECURSIVE hashmap_setFirstSuccess(_, _)
\* func (s *hashmapStorage) setFirstSuccess(payload []byte) error, from node i on
hashmap_setFirstSuccess(nodes, i) ==
    IF i > Len(nodes)
    THEN Result("no servers available", Nil, Nil, 0, Requests(nodes, Len(nodes)))
    ELSE IF ~nodes[i].urlOK \/ ~nodes[i].connOK THEN hashmap_setFirstSuccess(nodes, i + 1)
    ELSE IF nodes[i].status > 399 THEN hashmap_setFirstSuccess(nodes, i + 1)
    ELSE Result("", Nil, Nil, i, Requests(nodes, i))

\* func (s *hashmapStorage) Set(key string, value []byte) (string, error):
\* signatures is len(s.Signatures), signOK whether hashmap.GeneratePayload
\* returns a payload
hashmapStorage_Set(rule, nodes, signatures, signOK) ==
    IF Len(nodes) < 1 THEN Result("no write nodes configured", Nil, Nil, 0, 0)
    ELSE IF signatures < 1 THEN Result("panic", Nil, Nil, 0, 0)
    ELSE IF ~signOK THEN Result("generate payload", Nil, Nil, 0, 0)
    ELSE IF rule = "firstSuccess" THEN hashmap_setFirstSuccess(nodes, 1)
    ELSE Result("This writeRule is not yet implemented", Nil, Nil, 0, 0)

RECURSIVE hashmap_requests(_)
\* the HTTP requests getFirstSuccess makes on the read nodes of a pointer storage
hashmap_requests(nodes) ==
    IF nodes = <<>> THEN 0
    ELSE IF ~Head(nodes).urlOK \/ ~Head(nodes).mhOK THEN 0
    ELSE IF ~Head(nodes).httpOK \/ ~Head(nodes).parseOK THEN 1 + hashmap_requests(Tail(nodes))
    ELSE 1

\* func (s *hashmapStorage) Get(key string) ([]byte, error), whatever the ReadRule
hashmapStorage_Get(rule, nodes, Latest, clock) ==
    IF Len(nodes) < 1
    THEN [err |-> "no read nodes configured", bytes |-> Nil, Latest |-> Latest, tried |-> 0]
    ELSE IF rule = "firstSuccess"
    THEN LET r == getFirstSuccess(nodes, Latest, clock) IN
         [err |-> r.err, bytes |-> r.bytes, Latest |-> r.Latest,
          tried |-> hashmap_requests(nodes)]
    ELSE [err |-> "This readRule is not yet implemented", bytes |-> Nil,
          Latest |-> Latest, tried |-> 0]

-----------------------------------------------------------------------------
(* The isolated hashmapStorage object *)

\* The timestamps a node may answer with: around the high-water mark, the
\* clock, and the edge of the future window.
TsRange ==
    {store.Latest - 1, store.Latest, store.Latest + 1, now,
     now + FutureSkew, now + FutureSkew + 1}

\* What the read nodes of the endpoint "p" may answer.  The answers that fail a
\* check other than freshness carry a timestamp that would be accepted.
NodeAnswers ==
    {Answer("p", "p", ts, <<"msg", ts>>) : ts \in TsRange}
    \cup {[Answer("p", "p", store.Latest + 1, <<"msg", 0>>) EXCEPT ![f] = FALSE] :
            f \in {"urlOK", "mhOK", "httpOK", "parseOK", "pubOK", "dataOK", "msgOK"}}
    \cup {Answer("p", "q", store.Latest + 1, <<"msg", 0>>)}

\* The answers of the nodes tried before the last one of the list: a node that
\* is passed over, one with another signer's payload, one with a good payload.
EarlyAnswers ==
    {[Answer("p", "p", store.Latest + 1, <<"msg", 0>>) EXCEPT !.httpOK = FALSE],
     Answer("p", "q", store.Latest + 1, <<"msg", 0>>),
     Answer("p", "p", store.Latest + 1, <<"msg", 1>>)}

NodeLists ==
    {<<>>} \cup
    UNION {{early \o <<n>> : early \in [1..k -> EarlyAnswers], n \in NodeAnswers} :
             k \in 0..(MaxNodes - 1)}

\* One Get on the object.
HMGet ==
    /\ \E nodes \in NodeLists :
         LET res == hashmapGet(nodes, store.Latest, now) IN
         /\ store' = [store EXCEPT !.Latest = res.Latest]
         /\ rd' = [nodes |-> nodes, before |-> store.Latest, at |-> now, res |-> res]
    /\ UNCHANGED <<now, sessVars>>

-----------------------------------------------------------------------------
(* Session state *)

EmptyChat ==
    [PeerID |-> Nil, LastSent |-> Nil, Latest |-> [x \in Peers |-> 0], Peers |-> {},
     MaxTTL |-> 0]

\* the chat NewChat persists: its peers and settings, nothing sent or read yet
NewChat(peers, maxTTL) == [EmptyChat EXCEPT !.Peers = peers, !.MaxTTL = maxTTL]

\* func (c *chat) TTL() int64
TTL(c) == IF c.MaxTTL <= 0 THEN defaultChatTTL ELSE c.MaxTTL

NoData == [Parent |-> Nil, Timestamp |-> 0, TTL |-> 0, Message |-> ""]

NoBytes == [tag |-> Nil, ct |-> Nil]

Snapshot(s) ==
    [chat |-> chatKV[s], lookup |-> lookupKV[s], log |-> logKV[s],
     faults |-> faults, seen |-> seen[s], since |-> since[s]]

NoSnapshot ==
    [chat |-> EmptyChat, lookup |-> [x \in Peers |-> Nil], log |-> Nil,
     faults |-> 0, seen |-> [x \in Peers |-> 0], since |-> [kept |-> FALSE, at |-> 0 - 1]]

\* the argument b of SendMessage: its length and what json.Unmarshal reads from it
NoInput == [len |-> 0, json |-> NoData]

\* The locals of a goroutine.  walk says that retrieveMessage was called by
\* recursivelyLogParents; pre is the persisted state of the session when the
\* call started; ok and failed are what the call has to report when it is done.
IdleThread ==
    [op |-> "idle", pc |-> "idle", sess |-> "p", c |-> EmptyChat, l |-> Nil, cl |-> Nil,
     peer |-> "p", todo |-> {}, hash |-> Nil, data |-> NoData, key |-> Nil,
     bytes |-> NoBytes, walk |-> FALSE, failed |-> {}, ok |-> FALSE,
     panic |-> FALSE, b |-> NoInput, pre |-> NoSnapshot]

AllIdle == \A t \in Threads : th[t].op = "idle"

\* The state after NewChat on every side of a chat among peers: every session
\* holds the table of every peer, an empty log and an empty last_sent.
InitSessions(peers, maxTTL, kept) ==
    /\ now = 1
    /\ ipfs = <<>>
    /\ hm = [x \in Peers |-> <<>>]
    /\ chatKV = [s \in Peers |-> [NewChat(peers, maxTTL) EXCEPT !.PeerID = s]]
    /\ lookupKV = [s \in Peers |-> [x \in Peers |-> genLookups(x, LookupCount)]]
    /\ logKV = [s \in Peers |-> Nil]
    /\ th = [t \in Threads |-> IdleThread]
    /\ faults = 0
    /\ seen = [s \in Peers |-> [x \in Peers |-> 0]]
    /\ hwm = [s \in Peers |-> [x \in Peers |-> 0]]
    /\ since = [s \in Peers |-> [kept |-> kept, at |-> 0 - 1]]

\* the same, with a pointer storage that has read nothing yet
InitChat(peers, maxTTL, kept) ==
    /\ InitSessions(peers, maxTTL, kept)
    /\ store = [Latest |-> 0]
    /\ rd = [nodes |-> <<>>, before |-> 0, at |-> 0,
             res |-> [err |-> "none", bytes |-> Nil, Latest |-> 0]]

\* a chat of p and q
Init == InitChat({"p", "q"}, 0, FALSE)

\* time passes between the reads of the isolated object
Tick ==
    /\ now < MaxTime
    /\ now' = now + 1
    /\ UNCHANGED <<sessVars, since, store, rd>>

-----------------------------------------------------------------------------
(* session.go: helpers shared by the steps *)

Set(t, rec) == th' = [th EXCEPT ![t] = rec]

\* The call of goroutine t has done its last step and is about to return.
Finish(t, ok) ==
    Set(t, [th[t] EXCEPT !.pc = "done", !.ok = ok, !.todo = {}, !.walk = FALSE,
              !.l = Nil, !.cl = Nil, !.key = Nil, !.bytes = NoBytes])

\* The call of goroutine t dies of a runtime panic.
Panic(t) ==
    Set(t, [th[t] EXCEPT !.pc = "done", !.ok = FALSE, !.panic = TRUE, !.todo = {},
              !.walk = FALSE, !.l = Nil, !.cl = Nil, !.key = Nil, !.bytes = NoBytes])

\* popRandom that hands out an entry without removing it.
popRandom_NoDelete(l, k) == [k |-> k, v |-> l[k], l |-> l]

\* func (l *lookup) popRandom() (string, []byte), k being the entry getRandom drew
popRandom(l, k) == [k |-> k, v |-> l[k], l |-> delete(l, k)]

\* func (l lookup) getRandom(): the entries the draw may come up with.  Of the
\* remaining entries the model follows the draw of the first and of the last.
getRandom(l) ==
    {k \in DOMAIN l : \/ \A lo \in DOMAIN l : k[2] <= lo[2]
                       \/ \A hi \in DOMAIN l : k[2] >= hi[2]}

\* sends that have started and not yet published their blob
SendsStarting ==
    Cardinality({t \in Threads : th[t].op = "send" /\
                   th[t].pc \in {"getLookup", "popBlobKey", "storeBlob"}})

\* Storage.Get(hash) on the blob network: the bytes stored under hash, or, for a
\* hash that names nothing, the body of the gateway's error page.
ErrorPage == [tag |-> <<"page", 0>>, ct |-> Nil]

ipfsGet(hash) ==
    IF \E n \in 1..Len(ipfs) : HashOf(n) = hash
    THEN ipfs[CHOOSE n \in 1..Len(ipfs) : HashOf(n) = hash]
    ELSE ErrorPage

-----------------------------------------------------------------------------
(* session.go: SendMessage *)

\* a caller's message: a few bytes of JSON that name the message only
Msgs == {[len |-> 1, json |-> [NoData EXCEPT !.Message = "a"]]}

\* the size test with the limit itself refused.
TooLarge_AtLimit(b) == b.len >= maxMessageSize

\* line 489: len(b) > maxMessageSize
TooLarge(b) == b.len > maxMessageSize

\* the stamping that leaves the caller's parent in the payload.
stamp_KeepParent(data, c, clock) ==
    [data EXCEPT !.Timestamp = clock, !.TTL = TTL(c)]

\* the stamping that leaves the caller's ttl in the payload.
stamp_KeepTTL(data, c, clock) ==
    [data EXCEPT !.Parent = c.LastSent, !.Timestamp = clock]

\* lines 502-504: the fields SendMessage overwrites in what it has unmarshalled
stamp(data, c, clock) ==
    [data EXCEPT !.Parent = c.LastSent, !.Timestamp = clock, !.TTL = TTL(c)]

\* SendMessage, lines 488-511: the size test, getChat, build the chatData.
\* time.Now() reads later than it did in any earlier call.
SendMessage_getChat(t, s, b) ==
    /\ th[t].op = "idle"
    /\ IF TooLarge(b)
       THEN /\ Set(t, [IdleThread EXCEPT !.op = "send", !.pc = "done", !.sess = s,
                        !.b = b, !.pre = Snapshot(s)])
            /\ UNCHANGED now
       ELSE /\ Len(ipfs) + SendsStarting < MaxBlobs
            /\ now <= MaxBlobs + MaxFaults
            /\ now' = now + 1
            /\ Set(t, [IdleThread EXCEPT !.op = "send", !.pc = "getLookup", !.sess = s,
                        !.b = b, !.c = chatKV[s], !.pre = Snapshot(s),
                        !.data = stamp(b.json, chatKV[s], now')])
    /\ UNCHANGED <<ipfs, hm, chatKV, lookupKV, logKV, faults, seen, hwm, since, store, rd>>

\* the send that notes the hash it expects in last_sent before it publishes.
SendMessage_getLookup_MarksSent(t) ==
    /\ th[t].op = "send" /\ th[t].pc = "getLookup"
    /\ Set(t, [th[t] EXCEPT !.l = lookupKV[th[t].sess][chatKV[th[t].sess].PeerID],
                            !.pc = "popBlobKey"])
    /\ chatKV' = [chatKV EXCEPT ![th[t].sess].LastSent = HashOf(Len(ipfs) + 1)]
    /\ UNCHANGED <<now, ipfs, hm, lookupKV, logKV, seen, hwm, faults, since, store, rd>>

\* line 513: l := getLookup(chatID, c.PeerID)
SendMessage_getLookup(t) ==
    /\ th[t].op = "send" /\ th[t].pc = "getLookup"
    /\ Set(t, [th[t] EXCEPT !.l = lookupKV[th[t].sess][chatKV[th[t].sess].PeerID],
                            !.pc = "popBlobKey"])
    /\ UNCHANGED <<now, ipfs, hm, chatKV, lookupKV, logKV, seen, hwm, faults, since, store, rd>>

\* the pop that does not write the table back.
SendMessage_pop_Unsaved(t, from, to) ==
    /\ th[t].op = "send" /\ th[t].pc = from
    /\ IF DOMAIN th[t].l = {}
       THEN Panic(t)
       ELSE \E k \in getRandom(th[t].l) :
               LET r == popRandom(th[t].l, k) IN
               Set(t, [th[t] EXCEPT !.l = r.l, !.key = r.v,
                                    !.bytes = [tag |-> r.k, ct |-> Nil], !.pc = to])
    /\ UNCHANGED <<now, ipfs, hm, chatKV, lookupKV, logKV, faults, seen, hwm, since, store, rd>>

\* lines 517-520 and 545-548: popRandom, setLookup.  rand.Int panics on an
\* empty table: the call dies.
SendMessage_pop(t, from, to) ==
    LET s == th[t].sess IN
    /\ th[t].op = "send" /\ th[t].pc = from
    /\ IF DOMAIN th[t].l = {}
       THEN /\ Panic(t)
            /\ UNCHANGED lookupKV
       ELSE /\ \E k \in getRandom(th[t].l) :
                 LET r == popRandom(th[t].l, k) IN
                 /\ Set(t, [th[t] EXCEPT !.l = r.l, !.key = r.v,
                                         !.bytes = [tag |-> r.k, ct |-> Nil], !.pc = to])
                 /\ lookupKV' = [lookupKV EXCEPT ![s][chatKV[s].PeerID] = r.l]
    /\ UNCHANGED <<now, ipfs, hm, chatKV, logKV, faults, seen, hwm, since, store, rd>>

SendMessage_popBlobKey(t) == SendMessage_pop(t, "popBlobKey", "storeBlob")

\* the send that takes the hash of the blob after this one for last_sent.
SendMessage_storeBlob_Ahead(t) ==
    /\ th[t].op = "send" /\ th[t].pc = "storeBlob"
    /\ LET e == Encrypt(th[t].data, th[t].key)
           hash == HashOf(Len(ipfs) + 1) IN
       /\ e.err = ""
       /\ ipfs' = Append(ipfs, [tag |-> th[t].bytes.tag, ct |-> e.ct])
       /\ Set(t, [th[t] EXCEPT !.hash = hash, !.c.LastSent = HashOf(Len(ipfs) + 2),
                               !.pc = "setChat"])
    /\ UNCHANGED <<now, hm, chatKV, lookupKV, logKV, seen, hwm, faults, since, store, rd>>

\* lines 522-539: encrypt the chatData, publish tag || ciphertext, c.LastSent = hash
SendMessage_storeBlob(t) ==
    /\ th[t].op = "send" /\ th[t].pc = "storeBlob"
    /\ LET e == Encrypt(th[t].data, th[t].key)
           hash == HashOf(Len(ipfs) + 1) IN
       /\ e.err = ""
       /\ ipfs' = Append(ipfs, [tag |-> th[t].bytes.tag, ct |-> e.ct])
       /\ Set(t, [th[t] EXCEPT !.hash = hash, !.c.LastSent = hash, !.pc = "setChat"])
    /\ UNCHANGED <<now, hm, chatKV, lookupKV, logKV, seen, hwm, faults, since, store, rd>>

\* the send that goes on to the pointer without persisting last_sent.
SendMessage_setChat_Skip(t) ==
    /\ th[t].op = "send" /\ th[t].pc = "setChat"
    /\ Set(t, [th[t] EXCEPT !.pc = "popPointerKey"])
    /\ UNCHANGED <<now, ipfs, hm, chatKV, lookupKV, logKV, seen, hwm, faults, since, store, rd>>

\* lines 541-543: setChat(chatID, c)
SendMessage_setChat(t) ==
    /\ th[t].op = "send" /\ th[t].pc = "setChat"
    /\ chatKV' = [chatKV EXCEPT ![th[t].sess] = th[t].c]
    /\ Set(t, [th[t] EXCEPT !.pc = "popPointerKey"])
    /\ UNCHANGED <<now, ipfs, hm, lookupKV, logKV, seen, hwm, faults, since, store, rd>>

SendMessage_popPointerKey(t) == SendMessage_pop(t, "popPointerKey", "setRendezvous")

\* lines 550-566: encrypt the hash, publish tag || ciphertext in a signed envelope
SendMessage_setRendezvous(t) ==
    /\ th[t].op = "send" /\ th[t].pc = "setRendezvous"
    /\ LET e == Encrypt(th[t].hash, th[t].key) IN
       /\ e.err = ""
       /\ hm' = [hm EXCEPT ![th[t].sess] =
                    Append(@, [ts |-> now, msg |-> [tag |-> th[t].bytes.tag, ct |-> e.ct]])]
    /\ Set(t, [th[t] EXCEPT !.pc = "getChatLog"])
    /\ UNCHANGED <<now, ipfs, chatKV, lookupKV, logKV, seen, hwm, faults, since, store, rd>>

\* lines 568-571: cl := GetChatLog(chatID)
SendMessage_getChatLog(t) ==
    /\ th[t].op = "send" /\ th[t].pc = "getChatLog"
    /\ Set(t, [th[t] EXCEPT !.cl = logKV[th[t].sess], !.pc = "addEntry"])
    /\ UNCHANGED <<now, ipfs, hm, chatKV, lookupKV, logKV, seen, hwm, faults, since, store, rd>>

\* lines 573-588: AddEntry, setChatLog, return the sorted log
SendMessage_addEntry(t) ==
    /\ th[t].op = "send" /\ th[t].pc = "addEntry"
    /\ LET r == AddEntry(th[t].cl, ChatLogEntry(th[t].hash, th[t].sess, th[t].data)) IN
       IF r.err # ""
       THEN Finish(t, FALSE) /\ UNCHANGED logKV
       ELSE /\ logKV' = [logKV EXCEPT ![th[t].sess] = r.cl]
            /\ Finish(t, TRUE)
    /\ UNCHANGED <<now, ipfs, hm, chatKV, lookupKV, seen, hwm, faults, since, store, rd>>

\* A call stops where it is: SendMessage returns the error of the KV, cipher or
\* backend request it was about to make, or the process dies (a panic, a kill).
\* Nothing further is written.
Crash(t) ==
    /\ th[t].op # "idle"
    /\ faults < MaxFaults
    /\ faults' = faults + 1
    /\ th[t].pc # "done"
    /\ Finish(t, FALSE)
    /\ UNCHANGED <<now, ipfs, hm, chatKV, lookupKV, logKV, seen, hwm, since, store, rd>>

\* The call returns to its caller.
Done(t) ==
    /\ th[t].pc = "done"
    /\ Set(t, IdleThread)
    /\ UNCHANGED <<now, ipfs, hm, chatKV, lookupKV, logKV, faults, seen, hwm, since, store, rd>>

-----------------------------------------------------------------------------
(* session.go: RetrieveMessages *)

\* The round that gives up at the first peer that fails.
NextPeer_StopOnFailure(t, isFailure) ==
    IF isFailure
    THEN Set(t, [th[t] EXCEPT !.pc = "done", !.ok = FALSE, !.failed = @ \cup {th[t].peer},
                   !.todo = {}, !.walk = FALSE, !.l = Nil, !.cl = Nil, !.key = Nil,
                   !.bytes = NoBytes])
    ELSE Set(t, [th[t] EXCEPT !.pc = "range",
                   !.l = Nil, !.cl = Nil, !.hash = Nil, !.data = NoData, !.key = Nil,
                   !.bytes = NoBytes, !.walk = FALSE])

\* The work on the current peer ends (continue): on to the next peer.
NextPeer(t, isFailure) ==
    Set(t, [th[t] EXCEPT !.pc = "range",
              !.failed = IF isFailure THEN @ \cup {th[t].peer} ELSE @,
              !.l = Nil, !.cl = Nil, !.hash = Nil, !.data = NoData, !.key = Nil,
              !.bytes = NoBytes, !.walk = FALSE])

\* the round that takes the own peer id for a peer like the others.
RetrieveMessages_getChat_Self(t, s) ==
    /\ th[t].op = "idle"
    /\ Set(t, [IdleThread EXCEPT !.op = "retr", !.pc = "range", !.sess = s,
                 !.c = chatKV[s], !.todo = chatKV[s].Peers, !.pre = Snapshot(s)])
    /\ seen' = [seen EXCEPT ![s] = [x \in Peers |-> Len(hm[x])]]
    /\ since' = [since EXCEPT ![s].at = IF since[s].kept THEN faults ELSE @]
    /\ UNCHANGED <<now, ipfs, hm, chatKV, lookupKV, logKV, faults, hwm, store, rd>>

\* RetrieveMessages, lines 439-447: getChat
RetrieveMessages_getChat(t, s) ==
    /\ th[t].op = "idle"
    /\ Set(t, [IdleThread EXCEPT !.op = "retr", !.pc = "range", !.sess = s,
                 !.c = chatKV[s], !.todo = chatKV[s].Peers \ {chatKV[s].PeerID}, !.pre = Snapshot(s)])
    /\ seen' = [seen EXCEPT ![s] = [x \in Peers |-> Len(hm[x])]]
    /\ since' = [since EXCEPT ![s].at = IF since[s].kept THEN faults ELSE @]
    /\ UNCHANGED <<now, ipfs, hm, chatKV, lookupKV, logKV, faults, hwm, store, rd>>

\* lines 449-452: for peerID := range c.Peers, skipping self, in map order
RetrieveMessages_range(t) ==
    /\ th[t].op = "retr" /\ th[t].pc = "range"
    /\ th[t].todo # {}
    /\ \E peerID \in th[t].todo :
         Set(t, [th[t] EXCEPT !.peer = peerID, !.todo = @ \ {peerID}, !.pc = "rendezvousLoad"])
    /\ UNCHANGED <<now, ipfs, hm, chatKV, lookupKV, logKV, seen, hwm, faults, since, store, rd>>

\* lines 470-474: GetChatLog, return the sorted log
RetrieveMessages_return(t) ==
    /\ th[t].op = "retr" /\ th[t].pc = "range"
    /\ th[t].todo = {}
    /\ Finish(t, TRUE)
    /\ UNCHANGED <<now, ipfs, hm, chatKV, lookupKV, logKV, seen, hwm, faults, since, store, rd>>

\* getRendezvousHash, lines 315-322: getChat, getLookup
getRendezvousHash_load(t) ==
    /\ th[t].op = "retr" /\ th[t].pc = "rendezvousLoad"
    /\ Set(t, [th[t] EXCEPT !.c = chatKV[th[t].sess],
                            !.l = lookupKV[th[t].sess][th[t].peer], !.pc = "rendezvousGet"])
    /\ UNCHANGED <<now, ipfs, hm, chatKV, lookupKV, logKV, seen, hwm, faults, since, store, rd>>

\* What may go wrong with a backend request: nothing; the request fails
\* ("down"); the rendezvous answers with an envelope the peer published
\* earlier ("replay"); the peer has signed a payload that no SendMessage builds
\* ("malformed"); the peer has signed a fresh pointer to a blob it or another
\* peer published earlier ("forged").
FaultKinds == {"none", "down", "replay"}

\* What the read node of a peer's endpoint answers: the newest envelope the peer
\* published (nothing parseable when there is none); when down, nothing; or an
\* earlier envelope of the peer.
HonestAnswer(peer) ==
    IF hm[peer] = <<>>
    THEN [Answer(peer, peer, 0, NoBytes) EXCEPT !.parseOK = FALSE]
    ELSE LET e == hm[peer][Len(hm[peer])] IN Answer(peer, peer, e.ts, e.msg)

Replays(peer) ==
    {Answer(peer, peer, hm[peer][i].ts, hm[peer][i].msg) : i \in 1..(Len(hm[peer]) - 1)}

\* Payloads a peer can sign: fewer bytes than a tag (none at all included), a
\* tag of its table with nothing behind it, a tag with a ciphertext whose last
\* chunk is cut short.
Malformed(peer) ==
    {Answer(peer, peer, now, NoBytes)}
    \cup {Answer(peer, peer, now, [tag |-> tag, ct |-> ct]) :
            tag \in DOMAIN genLookups(peer, LookupCount), ct \in {Nil, ShortChunk}}

\* Pointers a peer can sign without SendMessage: a tag of its table, used or
\* not (the model follows the first and the last), and under the key of that
\* tag the hash of any blob there is.
Forged(peer) ==
    {Answer(peer, peer, now,
            [tag |-> tag, ct |-> Encrypt(HashOf(n), genLookups(peer, LookupCount)[tag]).ct]) :
        tag \in getRandom(genLookups(peer, LookupCount)), n \in 1..Len(ipfs)}

\* Pointers a peer can sign to something that is no hash of a blob: the two
\* bytes every hash begins with, sealed under the key of a tag of its table.
Fragments(peer) ==
    {Answer(peer, peer, now,
            [tag |-> tag, ct |-> Encrypt(<<81, 109>>, genLookups(peer, LookupCount)[tag]).ct]) :
        tag \in getRandom(genLookups(peer, LookupCount))}

NodeAnswer(peer, fault) ==
    CASE fault = "none" -> {HonestAnswer(peer)}
      [] fault = "down" -> {Unreachable(peer)}
      [] fault = "replay" -> Replays(peer)
      [] fault = "malformed" -> Malformed(peer)
      [] fault = "forged" -> Forged(peer)
      [] fault = "fragment" -> Fragments(peer)

\* lines 324-327: Strategy.Rendezvous.Get("") on the object rebuilt by getChat
getRendezvousHash_get(t, fault) ==
    /\ th[t].op = "retr" /\ th[t].pc = "rendezvousGet"
    /\ fault # "none" => faults < MaxFaults
    /\ faults' = IF fault # "none" THEN faults + 1 ELSE faults
    /\ \E node \in NodeAnswer(th[t].peer, fault) :
         LET res == hashmapGet(<<node>>, th[t].c.Latest[th[t].peer], now) IN
         IF res.err # ""
         THEN NextPeer(t, TRUE) /\ UNCHANGED hwm
         ELSE /\ Set(t, [th[t] EXCEPT !.c.Latest[th[t].peer] = res.Latest,
                                      !.bytes = res.bytes, !.pc = "rendezvousPop"])
              /\ hwm' = [hwm EXCEPT ![th[t].sess][th[t].peer] =
                            IF res.Latest > @ THEN res.Latest ELSE @]
    /\ UNCHANGED <<now, ipfs, hm, chatKV, lookupKV, logKV, seen, since, store, rd>>

\* the step that pops some entry when the tag of the payload is in no table.
getRendezvousHash_pop_Any(t) ==
    /\ th[t].op = "retr" /\ th[t].pc = "rendezvousPop"
    /\ IF th[t].bytes.tag = Nil
       THEN Panic(t) /\ UNCHANGED lookupKV
       ELSE LET r == popKey_Any(th[t].l, th[t].bytes.tag) IN
            /\ lookupKV' = [lookupKV EXCEPT ![th[t].sess][th[t].peer] = r.l]
            /\ Set(t, [th[t] EXCEPT !.l = r.l, !.key = r.v, !.pc = "rendezvousDecrypt"])
    /\ UNCHANGED <<now, ipfs, hm, chatKV, logKV, seen, hwm, faults, since, store, rd>>

\* lines 329-333: rKey := l.popKey(rHash); setLookup.  On fewer than
\* lookupHashLength bytes rBytes[:lookupHashLength] panics, or reads a tag that
\* is in no table and rBytes[lookupHashLength:] of line 334 panics.
getRendezvousHash_pop(t) ==
    /\ th[t].op = "retr" /\ th[t].pc = "rendezvousPop"
    /\ IF th[t].bytes.tag = Nil
       THEN Panic(t) /\ UNCHANGED lookupKV
       ELSE LET r == popKey(th[t].l, th[t].bytes.tag) IN
            /\ lookupKV' = [lookupKV EXCEPT ![th[t].sess][th[t].peer] = r.l]
            /\ Set(t, [th[t] EXCEPT !.l = r.l, !.key = r.v, !.pc = "rendezvousDecrypt"])
    /\ UNCHANGED <<now, ipfs, hm, chatKV, logKV, seen, hwm, faults, since, store, rd>>

\* lines 334-347: decrypt the pointer, GetChatLog, HashInLog
getRendezvousHash_decrypt(t) ==
    /\ th[t].op = "retr" /\ th[t].pc = "rendezvousDecrypt"
    /\ LET d == Decrypt(th[t].bytes.ct, th[t].key) IN
       IF d.err = "panic" THEN Panic(t)
       ELSE IF d.err # "" THEN NextPeer(t, TRUE)
       ELSE IF HashInLog(logKV[th[t].sess], d.data) THEN NextPeer(t, FALSE)
       ELSE Set(t, [th[t] EXCEPT !.hash = d.data, !.pc = "rendezvousSetChat"])
    /\ UNCHANGED <<now, ipfs, hm, chatKV, lookupKV, logKV, seen, hwm, faults, since, store, rd>>

\* lines 348-351: setChat(chatID, c), which exports the backend's Latest;
\* RetrieveMessages, lines 454-456: an empty hash ends the work on the peer
getRendezvousHash_setChat(t) ==
    /\ th[t].op = "retr" /\ th[t].pc = "rendezvousSetChat"
    /\ chatKV' = [chatKV EXCEPT ![th[t].sess] = th[t].c]
    /\ IF th[t].hash = Nil
       THEN NextPeer(t, FALSE)
       ELSE Set(t, [th[t] EXCEPT !.pc = "messageLoad"])
    /\ UNCHANGED <<now, ipfs, hm, lookupKV, logKV, seen, hwm, faults, since, store, rd>>

\* retrieveMessage, lines 355-368: getChat, getLookup, Strategy.Storage.Get(hash).
\* A failing gateway answers with an error page, which is read as the blob.
retrieveMessage_load(t, fault) ==
    /\ th[t].op = "retr" /\ th[t].pc = "messageLoad"
    /\ fault # "none" => faults < MaxFaults
    /\ faults' = IF fault # "none" THEN faults + 1 ELSE faults
    /\ Set(t, [th[t] EXCEPT !.c = chatKV[th[t].sess],
                            !.l = lookupKV[th[t].sess][th[t].peer],
                            !.bytes = IF fault = "down" THEN ErrorPage
                                      ELSE ipfsGet(th[t].hash),
                            !.pc = "messagePop"])
    /\ UNCHANGED <<now, ipfs, hm, chatKV, lookupKV, logKV, seen, hwm, since, store, rd>>

\* lines 369-377: key := l.popKey(lookupHash); "no key"; setLookup.  "no key"
\* is an error to RetrieveMessages (line 458) and the end of the chain to
\* recursivelyLogParents (lines 423-425).
retrieveMessage_pop(t) ==
    /\ th[t].op = "retr" /\ th[t].pc = "messagePop"
    /\ LET r == popKey(th[t].l, th[t].bytes.tag) IN
       IF r.v = Nil
       THEN NextPeer(t, ~th[t].walk) /\ UNCHANGED lookupKV
       ELSE /\ lookupKV' = [lookupKV EXCEPT ![th[t].sess][th[t].peer] = r.l]
            /\ Set(t, [th[t] EXCEPT !.l = r.l, !.key = r.v, !.pc = "messageDecrypt"])
    /\ UNCHANGED <<now, ipfs, hm, chatKV, logKV, seen, hwm, faults, since, store, rd>>

\* lines 378-387: decrypt the blob, json.Unmarshal, setChat
retrieveMessage_decrypt(t) ==
    /\ th[t].op = "retr" /\ th[t].pc = "messageDecrypt"
    /\ LET d == Decrypt(th[t].bytes.ct, th[t].key) IN
       IF d.err = "panic"
       THEN Panic(t) /\ UNCHANGED chatKV
       ELSE IF d.err # ""
       THEN NextPeer(t, TRUE) /\ UNCHANGED chatKV
       ELSE /\ chatKV' = [chatKV EXCEPT ![th[t].sess] = th[t].c]
            /\ Set(t, [th[t] EXCEPT !.data = d.data, !.pc = "logGet"])
    /\ UNCHANGED <<now, ipfs, hm, lookupKV, logKV, seen, hwm, faults, since, store, rd>>

\* logChatData, lines 391-394: GetChatLog
logChatData_get(t) ==
    /\ th[t].op = "retr" /\ th[t].pc = "logGet"
    /\ Set(t, [th[t] EXCEPT !.cl = logKV[th[t].sess], !.pc = "logAdd"])
    /\ UNCHANGED <<now, ipfs, hm, chatKV, lookupKV, logKV, seen, hwm, faults, since, store, rd>>

\* logChatData, lines 396-407: AddEntry, setChatLog
logChatData_add(t) ==
    /\ th[t].op = "retr" /\ th[t].pc = "logAdd"
    /\ LET r == AddEntry(th[t].cl, ChatLogEntry(th[t].hash, th[t].peer, th[t].data)) IN
       IF r.err # ""
       THEN NextPeer(t, TRUE) /\ UNCHANGED logKV
       ELSE /\ logKV' = [logKV EXCEPT ![th[t].sess] = r.cl]
            /\ Set(t, [th[t] EXCEPT !.pc = "parents"])
    /\ UNCHANGED <<now, ipfs, hm, chatKV, lookupKV, seen, hwm, faults, since, store, rd>>

\* recursivelyLogParents that logs the message and leaves its parents alone.
recursivelyLogParents_NoWalk(t) ==
    /\ th[t].op = "retr" /\ th[t].pc = "parents"
    /\ NextPeer(t, FALSE)
    /\ UNCHANGED <<now, ipfs, hm, chatKV, lookupKV, logKV, seen, hwm, faults, since, store, rd>>

\* recursivelyLogParents, lines 411-421 and 431-433: stop on an empty parent or a
\* parent already in the log, else retrieve and log the parent and go on from it
recursivelyLogParents(t) ==
    /\ th[t].op = "retr" /\ th[t].pc = "parents"
    /\ IF th[t].data.Parent = Nil \/ HashInLog(logKV[th[t].sess], th[t].data.Parent)
       THEN NextPeer(t, FALSE)
       ELSE Set(t, [th[t] EXCEPT !.hash = th[t].data.Parent, !.walk = TRUE,
                                 !.pc = "messageLoad"])
    /\ UNCHANGED <<now, ipfs, hm, chatKV, lookupKV, logKV, seen, hwm, faults, since, store, rd>>

-----------------------------------------------------------------------------
(* Specifications *)

\* One step of a SendMessage call of goroutine t on a session of senders.
SendStep(t, senders, inputs) ==
    \/ \E s \in senders, b \in inputs : SendMessage_getChat(t, s, b)
    \/ SendMessage_getLookup(t)
    \/ SendMessage_popBlobKey(t)
    \/ SendMessage_storeBlob(t)
    \/ SendMessage_setChat(t)
    \/ SendMessage_popPointerKey(t)
    \/ SendMessage_setRendezvous(t)
    \/ SendMessage_getChatLog(t)
    \/ SendMessage_addEntry(t)

\* One step of a RetrieveMessages call of goroutine t on a session of receivers,
\* its backend requests going wrong in the ways of kinds.
RetrieveStep(t, receivers, kinds) ==
    \/ \E s \in receivers : RetrieveMessages_getChat(t, s)
    \/ RetrieveMessages_range(t)
    \/ RetrieveMessages_return(t)
    \/ getRendezvousHash_load(t)
    \/ \E fault \in kinds : getRendezvousHash_get(t, fault)
    \/ getRendezvousHash_pop(t)
    \/ getRendezvousHash_decrypt(t)
    \/ getRendezvousHash_setChat(t)
    \/ \E fault \in kinds \cap {"none", "down"} : retrieveMessage_load(t, fault)
    \/ retrieveMessage_pop(t)
    \/ retrieveMessage_decrypt(t)
    \/ logChatData_get(t)
    \/ logChatData_add(t)
    \/ recursivelyLogParents(t)

\* Sequential use: one call at a time, any call may stop where it is; p
\* publishes, q retrieves.
Next == SendStep(1, {"p"}, Msgs) \/ RetrieveStep(1, {"q"}, FaultKinds) \/ Crash(1) \/ Done(1)

Spec == Init /\ [][Next]_vars

\* Two goroutines call SendMessage on the one Session of p.
NextConc == \E t \in Threads : SendStep(t, {"p"}, Msgs) \/ Done(t)

SpecConc == Init /\ [][NextConc]_vars

\* p sends in one process while q, in another, keeps calling RetrieveMessages;
\* of q's backend requests at most MaxFaults fail, and none is answered with
\* anything but the newest envelope.
Retrieving == RetrieveStep(2, {"q"}, {"none", "down"}) \/ Done(2)

NextLive == SendStep(1, {"p"}, Msgs) \/ Done(1) \/ Retrieving

SpecLive == Init /\ [][NextLive]_vars /\ WF_vars(Retrieving)

\* a chat of p, q and r
InitGroup == InitChat(Peers, 0, FALSE)

\* A chat of three: p publishes, r never does, q retrieves, and q's backend
\* requests may go wrong in every way.
NextGroup ==
    SendStep(1, {"p"}, Msgs) \/ RetrieveStep(1, {"q"}, FaultKinds) \/ Done(1)

SpecGroup == InitGroup /\ [][NextGroup]_vars

\* p publishes, with SendMessage or with payloads of its own making; q
\* retrieves.
NextMalformed ==
    SendStep(1, {"p"}, Msgs) \/ RetrieveStep(1, {"q"}, {"none", "malformed"}) \/ Done(1)

SpecMalformed == Init /\ [][NextMalformed]_vars

\* What callers hand to SendMessage: JSON of exactly maxMessageSize bytes and of
\* one byte more, naming the message only or naming a parent, a timestamp and
\* a ttl of the caller's choice as well.
SendInputs ==
    {[len |-> n, json |-> j] :
        n \in {maxMessageSize, maxMessageSize + 1},
        j \in {[NoData EXCEPT !.Message = "a"],
               [Parent |-> HashOf(2), Timestamp |-> 7, TTL |-> 9, Message |-> "b"]}}

\* the Settings.MaxTTL a chat may have been created with
MaxTTLs == {0 - 1, 0, 3}

InitSend == \E maxTTL \in MaxTTLs : InitChat({"p", "q"}, maxTTL, FALSE)

\* p sends one message after the other.
NextSend == SendStep(1, {"p"}, SendInputs) \/ Done(1)

SpecSend == InitSend /\ [][NextSend]_vars

\* a chat of p and q in which the failures before each round are kept
InitTwice == InitChat({"p", "q"}, 0, TRUE)

\* p publishes; q retrieves again and again, and its backend requests may go
\* wrong in every way.
NextTwice == SendStep(1, {"p"}, Msgs) \/ RetrieveStep(1, {"q"}, FaultKinds) \/ Done(1)

SpecTwice == InitTwice /\ [][NextTwice]_vars

\* p and q publish, q retrieves; p's rendezvous may answer with an older
\* envelope or with a pointer of p's own making.
NextForged ==
    \/ SendStep(1, {"p", "q"}, Msgs)
    \/ RetrieveStep(1, {"q"}, {"none", "replay", "forged"})
    \/ Done(1)

SpecForged == Init /\ [][NextForged]_vars

\* p publishes, with SendMessage or with pointers to no blob; q retrieves.
NextFragment ==
    SendStep(1, {"p"}, Msgs) \/ RetrieveStep(1, {"q"}, {"none", "fragment"}) \/ Done(1)

SpecFragment == Init /\ [][NextFragment]_vars

\* p sends and any of its sends may stop where it is; q retrieves, and none of
\* its requests fails.
NextLoss ==
    \/ SendStep(1, {"p"}, Msgs)
    \/ RetrieveStep(1, {"q"}, {"none"})
    \/ th[1].op = "send" /\ Crash(1)
    \/ Done(1)

SpecLoss == Init /\ [][NextLoss]_vars

\* p and q send and retrieve, one call at a time; the rendezvous may answer
\* with an envelope published earlier.
NextBoth ==
    \/ SendStep(1, {"p", "q"}, Msgs)
    \/ RetrieveStep(1, {"p", "q"}, {"none", "replay"})
    \/ Done(1)

SpecBoth == Init /\ [][NextBoth]_vars

\* Sent timestamps of one, two and three decimal digits
Stamps == {1, 2, 9, 10, 11, 99, 100}

\* cl.AddEntry(entry) and setChatLog on the chat log of p, for an entry of any
\* of the timestamps and one of two ids
ChatLog_AddEntry ==
    /\ Cardinality(DOMAIN logKV["p"]) < MaxLog
    /\ \E sent \in Stamps, n \in 1..2 :
         LET data == [NoData EXCEPT !.Timestamp = sent, !.Message = "a"]
             r == AddEntry(logKV["p"], ChatLogEntry(HashOf(n), "q", data)) IN
         /\ r.err = ""
         /\ logKV' = [logKV EXCEPT !["p"] = r.cl]
    /\ UNCHANGED <<now, ipfs, hm, chatKV, lookupKV, th, faults, seen, hwm, since, store, rd>>

NextLog == ChatLog_AddEntry

\* A chat log filled entry by entry.
SpecLog == Init /\ [][NextLog]_vars

\* p sends, q retrieves, one call at a time, and no request fails.
NextPair ==
    SendStep(1, {"p"}, SendInputs) \/ RetrieveStep(1, {"q"}, {"none"}) \/ Done(1)

SpecPair == InitSend /\ [][NextPair]_vars

\* the nodes of a blob storage, and the write nodes of a pointer storage: one
\* that serves, one that answers 404 with an error page, one that cannot be
\* reached, one whose URL does not parse
StorageNodes ==
    {Node(TRUE, TRUE, 200, <<"blob">>, HashOf(1)),
     Node(TRUE, TRUE, 404, <<"page">>, Nil),
     Node(TRUE, FALSE, 0, Nil, Nil),
     Node(FALSE, FALSE, 0, Nil, Nil)}

\* the signatures configured and whether the payload can be generated
Signing == {<<1, TRUE>>, <<1, FALSE>>, <<0, TRUE>>}

StorageNodeLists == UNION {[1..k -> StorageNodes] : k \in 0..MaxNodes}

\* One Get on an ipfsStorage object.
BlobGet ==
    /\ \E nodes \in StorageNodeLists :
         rd' = [kind |-> "blob read", nodes |-> nodes,
                res |-> ipfsStorage_Get(store.ReadRule, nodes)]
    /\ UNCHANGED <<now, sessVars, store>>

\* One Set on an ipfsStorage object.
BlobSet ==
    /\ \E nodes \in StorageNodeLists :
         rd' = [kind |-> "blob write", nodes |-> nodes,
                res |-> ipfsStorage_Set(store.WriteRule, nodes)]
    /\ UNCHANGED <<now, sessVars, store>>

\* One Set on a hashmapStorage object.
PointerSet ==
    /\ \E nodes \in StorageNodeLists, signing \in Signing :
         LET signatures == signing[1]
             signOK == signing[2] IN
         rd' = [kind |-> "pointer write", nodes |-> nodes,
                signatures |-> signatures, signOK |-> signOK,
                res |-> hashmapStorage_Set(store.WriteRule, nodes, signatures, signOK)]
    /\ UNCHANGED <<now, sessVars, store>>

\* the read nodes of a pointer storage: one that serves a fresh payload, one
\* that serves another signer's, one that serves a stale payload, one that
\* cannot be reached, one whose URL does not parse
PointerNodes ==
    {Answer("p", "p", store.Latest + 1, <<"msg", 1>>),
     Answer("p", "q", store.Latest + 1, <<"msg", 2>>),
     Answer("p", "p", store.Latest - 1, <<"msg", 3>>),
     Unreachable("p"),
     [Answer("p", "p", store.Latest + 1, <<"msg", 4>>) EXCEPT !.urlOK = FALSE]}

PointerNodeLists == UNION {[1..k -> PointerNodes] : k \in 0..MaxNodes}

\* One Get on a hashmapStorage object.
PointerGet ==
    /\ store.Latest < MaxTime
    /\ \E nodes \in PointerNodeLists :
         LET res == hashmapStorage_Get(store.ReadRule, nodes, store.Latest, now) IN
         /\ store' = [store EXCEPT !.Latest = res.Latest]
         /\ rd' = [kind |-> "pointer read", nodes |-> nodes,
                   before |-> store.Latest, at |-> now, res |-> res]
    /\ UNCHANGED <<now, sessVars>>

NextStorage == BlobGet \/ BlobSet \/ PointerSet \/ PointerGet

\* storage objects built with one of the rules; no call has been made
InitStorage ==
    /\ InitSessions({"p", "q"}, 0, FALSE)
    /\ \E rule \in Rules : store = [Latest |-> 0, ReadRule |-> rule, WriteRule |-> rule]
    /\ rd = [kind |-> "none", nodes |-> <<>>, res |-> Result("none", Nil, Nil, 0, 0)]

\* Calls on storage objects of every rule against arbitrary nodes.
SpecStorage == InitStorage /\ [][NextStorage]_vars

(* session.go: NewChat on the local store of p *)

\* the handshake a Session holds after s.activeHandshake = &handshake{}
EmptyHandshake == [PeerTotal |-> 0, Negotiators |-> {}, Position |-> Nil, sortOK |-> TRUE]

\* The handshakes p may hold when NewChat is called: the expected number of
\* peers, the negotiators received (named by their entropy), the entropy of
\* the local position, and whether SortedNegotiatorList returns a list.
Handshakes ==
    [PeerTotal : 1..3, Negotiators : {{"p"}, {"p", "q"}}, Position : {"p", "r"},
     sortOK : BOOLEAN]

\* the place of an entropy in the lexicographic order
Entropy(x) == IF x = "p" THEN 1 ELSE IF x = "q" THEN 2 ELSE 3

\* h.SortedNegotiatorList()
SortedNegotiatorList(negotiators) ==
    [i \in 1..Cardinality(negotiators) |->
        CHOOSE x \in negotiators :
            Cardinality({y \in negotiators : Entropy(y) < Entropy(x)}) = i - 1]

\* the keys of chat id below chats/{id}/{profile}: chatlog, config, lookups/{peer}
LookupKey(id, x) == <<id, "lookups", x>>
\* the config key with the chat id left out of the path.
ConfigKey_NoChat(id) == <<1, "config">>

ConfigKey(id) == <<id, "config">>
ChatLogKey(id) == <<id, "chatlog">>

\* the place of a key of one chat in the order in which List returns them
KeyOrder(k) ==
    IF k[2] = "chatlog" THEN 0 ELSE IF k[2] = "config" THEN 1 ELSE 1 + Entropy(k[3])

\* What may go wrong in one call of NewChat: the number of the s.set call that
\* fails (0: none), whether the List of the cleanup succeeds, and the number
\* of the Delete of the cleanup that fails (0: none).
NewChatFaults == [set : 0..4, listOK : BOOLEAN, delete : 0..3]

\* func deleteAllWithPrefix(s storage.Storage, prefix string) error: the keys
\* left in the store and the error
deleteAllWithPrefix(keys, id, f) ==
    LET listed == {k \in keys : k[1] = id}
        place(k) == 1 + Cardinality({j \in listed : KeyOrder(j) < KeyOrder(k)}) IN
    IF ~f.listOK THEN [keys |-> keys, err |-> "list"]
    ELSE IF f.delete \in 1..Cardinality(listed)
    THEN [keys |-> keys \ {k \in listed : place(k) < f.delete}, err |-> "delete"]
    ELSE [keys |-> keys \ listed, err |-> ""]

\* the NewChat that leaves the handshake in place once the chat exists.
NewChat_reset_Keep(h) == h

\* line 239: s.activeHandshake = &handshake{}
NewChat_reset(h) == EmptyHandshake

\* func (s *Session) NewChat() (string, error), called by p with the store
\* failing as f says.  The call is number rd.calls + 1 and the chat id it
\* draws is that number.
Session_NewChat(f) ==
    LET h == store.hs
        id == rd.calls + 1
        negotiators == SortedNegotiatorList(h.Negotiators)
        n == Len(negotiators)
        lookups(upto) == {LookupKey(id, negotiators[i]) : i \in 1..upto}
        return(err, chatID, written, cleanup) ==
            rd' = [kind |-> "NewChat", calls |-> id, id |-> chatID, hs |-> h,
                   written |-> written, cleanup |-> cleanup, res |-> [err |-> err]]
        fail(err, written) ==
            LET d == deleteAllWithPrefix(store.keys \cup written, id, f) IN
            /\ store' = [store EXCEPT !.keys = d.keys]
            /\ return(err, id, written, IF d.err = "" THEN "done" ELSE d.err)
            /\ UNCHANGED <<chatKV, lookupKV, logKV>> IN
    /\ rd.calls < MaxCalls
    /\ IF h.PeerTotal < 2
       THEN /\ return("not enough peers to start a chat", 0, {}, "none")
            /\ UNCHANGED <<store, chatKV, lookupKV, logKV>>
       ELSE IF h.PeerTotal # Cardinality(h.Negotiators)
       THEN /\ return("expected peer total", 0, {}, "none")
            /\ UNCHANGED <<store, chatKV, lookupKV, logKV>>
       ELSE IF ~h.sortOK
       THEN /\ return("sorted negotiator list", id, {}, "none")
            /\ UNCHANGED <<store, chatKV, lookupKV, logKV>>
       ELSE IF f.set \in 1..n
       THEN fail("setLookup", lookups(f.set - 1))
       ELSE IF h.Position \notin h.Negotiators
       THEN fail("primary PeerID not found for chat", lookups(n))
       ELSE IF f.set = n + 1
       THEN fail("setChat", lookups(n))
       ELSE IF f.set = n + 2
       THEN fail("setChatLog", lookups(n) \cup {ConfigKey(id)})
       ELSE LET written == lookups(n) \cup {ConfigKey(id), ChatLogKey(id)} IN
            /\ store' = [store EXCEPT !.keys = @ \cup written, !.chatID = id,
                                      !.hs = NewChat_reset(h)]
            /\ chatKV' = [chatKV EXCEPT
                 !["p"] = [NewChat(h.Negotiators, 0) EXCEPT !.PeerID = h.Position]]
            /\ lookupKV' = [lookupKV EXCEPT
                 !["p"] = [x \in Peers |-> IF x \in h.Negotiators
                                           THEN genLookups(x, LookupCount) ELSE Nil]]
            /\ logKV' = [logKV EXCEPT !["p"] = Nil]
            /\ return("", id, written, "none")
    /\ UNCHANGED <<now, ipfs, hm, th, faults, seen, hwm, since>>

\* p holds a handshake and no chat; q holds the chat of p and q already.
InitNewChat ==
    /\ now = 1
    /\ ipfs = <<>>
    /\ hm = [x \in Peers |-> <<>>]
    /\ chatKV = [s \in Peers |-> IF s = "p" THEN EmptyChat
                                 ELSE [NewChat({"p", "q"}, 0) EXCEPT !.PeerID = s]]
    /\ lookupKV = [s \in Peers |-> [x \in Peers |-> IF s = "p" THEN Nil
                                                    ELSE genLookups(x, LookupCount)]]
    /\ logKV = [s \in Peers |-> Nil]
    /\ th = [t \in Threads |-> IdleThread]
    /\ faults = 0
    /\ seen = [s \in Peers |-> [x \in Peers |-> 0]]
    /\ hwm = [s \in Peers |-> [x \in Peers |-> 0]]
    /\ since = [s \in Peers |-> [kept |-> FALSE, at |-> 0 - 1]]
    /\ \E h \in Handshakes : store = [Latest |-> 0, hs |-> h, keys |-> {}, chatID |-> 0]
    /\ rd = [kind |-> "none", calls |-> 0, id |-> 0, hs |-> EmptyHandshake,
             written |-> {}, cleanup |-> "none", res |-> [err |-> "none"]]

\* p calls NewChat, again after a failure, between the other calls.  q
\* publishes before p calls it; once p has its chat, p sends and retrieves in
\* it.
NextNewChat ==
    \/ th[1].op = "idle" /\ \E f \in NewChatFaults : Session_NewChat(f)
    \/ SendStep(1, IF rd.kind = "none" THEN {"q"} ELSE IF store.chatID # 0 THEN {"p"} ELSE {},
                Msgs)
    \/ store.chatID # 0 /\ RetrieveStep(1, {"p"}, {"none"})
    \/ Done(1)

SpecNewChat == InitNewChat /\ [][NextNewChat]_vars

(* session.go: NewSession and the Session it returns *)

Passwords == {"a", "b"}

\* func deriveKey(pw, salt []byte) []byte
deriveKey(pw, salt) == <<"argon2", pw, salt>>

\* a persisted profile: the blob at profiles/{id}, sealed under the key derived
\* from its password and its id
Profile(id, pw) == [id |-> id, blob |-> Encrypt(<<"profile", id>>, deriveKey(pw, id)).ct]

\* What storage.List(profileKeyPrefix) may return: no profile, one, or two in
\* the order of their paths.
ProfileLists ==
    {<<>>}
    \cup {<<Profile(id, pw)>> : id \in 1..MaxProfiles, pw \in Passwords}
    \cup {<<Profile(i, pw1), Profile(i + 1, pw2)>> :
            i \in 1..(MaxProfiles - 1), pw1 \in Passwords, pw2 \in Passwords}

NoSession == [profile |-> 0, ttl |-> 0, startTime |-> 0]

RECURSIVE NewSession_range_FirstOnly(_, _, _, _)
\* the loop that gives up after the first profile.
NewSession_range_FirstOnly(profilePaths, password, i, clock) ==
    IF i > 1 THEN [err |-> "invalid password", session |-> NoSession]
    ELSE LET key == deriveKey(password, profilePaths[i].id)
             profile == Decrypt(profilePaths[i].blob, key) IN
         IF profile.err = ""
         THEN [err |-> "", session |-> [profile |-> profilePaths[i].id,
                                        ttl |-> DefaultSessionTTL, startTime |-> clock]]
         ELSE NewSession_range_FirstOnly(profilePaths, password, i + 1, clock)

RECURSIVE NewSession_range(_, _, _, _)
\* lines 66-77: for _, profilePath := range profilePaths, from path i on
NewSession_range(profilePaths, password, i, clock) ==
    IF i > Len(profilePaths) THEN [err |-> "invalid password", session |-> NoSession]
    ELSE LET key == deriveKey(password, profilePaths[i].id)
             profile == Decrypt(profilePaths[i].blob, key) IN
         IF profile.err = ""
         THEN [err |-> "", session |-> [profile |-> profilePaths[i].id,
                                        ttl |-> DefaultSessionTTL, startTime |-> clock]]
         ELSE NewSession_range(profilePaths, password, i + 1, clock)

\* func NewSession(password string, cfg config.Config, opts SessionOptions)
\* (*Session, error), called when time.Now().Unix() is store.clock
NewSession(password) ==
    LET profilePaths == store.profiles
        r == IF Len(profilePaths) = 0
             THEN [err |-> "no profile found", session |-> NoSession]
             ELSE NewSession_range(profilePaths, password, 1, store.clock) IN
    /\ rd' = [kind |-> "login", password |-> password, res |-> r]
    /\ store' = [store EXCEPT !.session = IF r.err = "" THEN r.session ELSE @]
    /\ UNCHANGED <<now, sessVars>>

\* more than the TTL of a session passes between two calls
Elapse ==
    /\ th[1].op = "idle"
    /\ store.clock < MaxTime * (DefaultSessionTTL + 1)
    /\ store' = [store EXCEPT !.clock = @ + DefaultSessionTTL + 1]
    /\ UNCHANGED <<now, sessVars, rd>>

InitLogin ==
    /\ InitSessions({"p", "q"}, 0, FALSE)
    /\ \E l \in ProfileLists :
          store = [Latest |-> 0, profiles |-> l, session |-> NoSession, clock |-> 0]
    /\ rd = [kind |-> "none", password |-> "",
             res |-> [err |-> "none", session |-> NoSession]]

\* p logs in, time passes, and the Session p holds sends.
NextLogin ==
    \/ th[1].op = "idle" /\ \E password \in Passwords : NewSession(password)
    \/ Elapse
    \/ store.session # NoSession /\ (SendStep(1, {"p"}, Msgs) \/ Done(1))

SpecLogin == InitLogin /\ [][NextLogin]_vars

(* session.go, storage_bolt.go: the file lock of the local KV *)

\* The storage file as one process sees it: flock says that a handle of the
\* process holds the lock bolt.Open takes on the file, leaked that the handle
\* belongs to no Session.
InitOpen ==
    /\ InitSessions({"p", "q"}, 0, FALSE)
    /\ \E l \in ProfileLists :
          store = [Latest |-> 0, profiles |-> l, session |-> NoSession, clock |-> 0,
                   flock |-> FALSE, leaked |-> FALSE]
    /\ rd = [kind |-> "none", password |-> "",
             res |-> [err |-> "none", session |-> NoSession]]

\* NewSession, lines 43-80, with newBoltStorage, storage_bolt.go lines 13-47:
\* bolt.Open(fp, 0666, nil) waits for the lock on the file for as long as it
\* takes ("blocked": the call has not returned); storage.List fails or not;
\* no return of NewSession closes the storage.
Open_NewSession(password, listOK) ==
    /\ th[1].op = "idle"
    /\ IF store.flock
       THEN /\ rd' = [kind |-> "login", password |-> password,
                      res |-> [err |-> "blocked", session |-> NoSession]]
            /\ UNCHANGED store
       ELSE LET profilePaths == store.profiles
                r == IF ~listOK THEN [err |-> "list", session |-> NoSession]
                     ELSE IF Len(profilePaths) = 0
                     THEN [err |-> "no profile found", session |-> NoSession]
                     ELSE NewSession_range(profilePaths, password, 1, store.clock) IN
            /\ rd' = [kind |-> "login", password |-> password, res |-> r]
            /\ store' = [store EXCEPT !.flock = TRUE, !.leaked = (r.err # ""),
                                      !.session = r.session]
    /\ UNCHANGED <<now, sessVars>>

\* func (s *Session) Close() error, lines 100-103: s.storage.Close()
Session_Close ==
    /\ th[1].op = "idle"
    /\ store.session # NoSession
    /\ store' = [store EXCEPT !.flock = FALSE, !.session = NoSession]
    /\ rd' = [rd EXCEPT !.kind = "close"]
    /\ UNCHANGED <<now, sessVars>>

\* The collector finds the handle nothing refers to and the finalizer of its
\* os.File closes the descriptor; when, and whether at all, is not defined.
Finalize ==
    /\ store.leaked
    /\ store' = [store EXCEPT !.flock = FALSE, !.leaked = FALSE]
    /\ UNCHANGED <<now, sessVars, rd>>

NextOpen ==
    \/ \E password \in Passwords, listOK \in BOOLEAN : Open_NewSession(password, listOK)
    \/ Session_Close
    \/ Finalize
    \/ Elapse

\* One process logs in on one storage file again and again.
SpecOpen == InitOpen /\ [][NextOpen]_vars

(* crypto.go: genLookups on the derived byte streams *)

\* argon2.IDKey(password, salt, 1, 64*1024, 4, keyLen): keyLen bytes that
\* depend on the password, the salt and the length asked for
argon2_IDKey(password, salt, keyLen) == [j \in 1..keyLen |-> <<password, salt, keyLen, j>>]

\* base64.StdEncoding.EncodeToString
base64(bytes) == <<"base64", bytes>>

\* bytes[start:end] of a Go slice
Slice(bytes, start, end) == SubSeq(bytes, start + 1, end)

\* genLookups whose loop starts at the zeroth slot.
genLookups_derive_FromZero(pepper, entropy, cipherType, count) ==
    IF count < 1 THEN [err |-> "count must be greater than or equal to 1", lookups |-> Nil]
    ELSE IF cipherType # "SecretBox" THEN [err |-> "not implemented", lookups |-> Nil]
    ELSE LET lookupBytes == argon2_IDKey(pepper, entropy[2], count * lookupHashLength)
             keyBytes == argon2_IDKey(entropy[1], entropy[3], count * secretBoxKeyLength)
             k(i) == base64(Slice(lookupBytes, i * lookupHashLength,
                                  (i + 1) * lookupHashLength))
             v(i) == Slice(keyBytes, i * secretBoxKeyLength, (i + 1) * secretBoxKeyLength)
         IN  [err |-> "",
              lookups |-> [tag \in {k(i) : i \in 0..(count - 1)} |->
                             v(CHOOSE i \in 0..(count - 1) : k(i) = tag)]]

\* func genLookups(pepper [64]byte, entropy [96]byte, cipherType CipherType,
\* count int) (lookup, error), with entropy given as its three thirds.  Of two
\* slots with the same tag the later one stays in the map.
genLookups_derive(pepper, entropy, cipherType, count) ==
    IF count < 1 THEN [err |-> "count must be greater than or equal to 1", lookups |-> Nil]
    ELSE IF cipherType # "SecretBox" THEN [err |-> "not implemented", lookups |-> Nil]
    ELSE LET lookupBytes == argon2_IDKey(pepper, entropy[2], count * lookupHashLength)
             keyBytes == argon2_IDKey(entropy[1], entropy[3], count * secretBoxKeyLength)
             k(i) == base64(Slice(lookupBytes, (i - 1) * lookupHashLength,
                                  i * lookupHashLength))
             v(i) == Slice(keyBytes, (i - 1) * secretBoxKeyLength, i * secretBoxKeyLength)
         IN  [err |-> "",
              lookups |-> [tag \in {k(i) : i \in 1..(count - 1)} |->
                             LET slots == {i \in 1..(count - 1) : k(i) = tag} IN
                             v(CHOOSE i \in slots : \A j \in slots : j <= i)]]

\* the arguments two peers may call genLookups with
LookupInputs ==
    [pepper : {"pepper1", "pepper2"},
     entropy : {<<"e1", "e2", "e3">>, <<"e1", "f2", "e3">>, <<"f1", "e2", "f3">>},
     cipherType : {"SecretBox", "other"},
     count : 0..MaxCount]

NoLookupCall == [in |-> Nil, res |-> [err |-> "none", lookups |-> Nil]]

\* peer number n derives a table
genLookups_call(n, in) ==
    /\ store' = [store EXCEPT !.derived[n] =
                   [in |-> in,
                    res |-> genLookups_derive(in.pepper, in.entropy, in.cipherType, in.count)]]
    /\ UNCHANGED <<now, sessVars, rd>>

InitLookups ==
    /\ InitSessions({"p", "q"}, 0, FALSE)
    /\ store = [Latest |-> 0, derived |-> [n \in 1..2 |-> NoLookupCall]]
    /\ rd = [kind |-> "none"]

NextLookups == \E n \in 1..2, in \in LookupInputs : genLookups_call(n, in)

SpecLookups == InitLookups /\ [][NextLookups]_vars

(* crypto.go: SecretBoxCipher on bytes *)

\* the key number id of len bytes
KeyBytes(len, id) == [j \in 1..len |-> <<"key", id, j>>]

\* the nonce genNonce returns at its r-th draw
NonceBytes(r) == [j \in 1..secretBoxNonceLength |-> <<"nonce", r, j>>]

\* secretbox.Overhead, the length of the authenticator
Overhead == secretBoxDecryptionOffset - secretBoxNonceLength

\* secretbox.Seal(nil, chunk, &n, &k): the authenticator, then one byte of
\* ciphertext for every byte of the chunk
Seal(chunk, n, k) ==
    [j \in 1..Overhead |-> <<"auth", n, k, chunk, j>>]
    \o [j \in 1..Len(chunk) |-> <<"box", n, k, j, chunk[j]>>]

\* secretbox.Open(nil, box, &n, &k)
Open(box, n, k) ==
    IF Len(box) < Overhead THEN [ok |-> FALSE, chunk |-> <<>>]
    ELSE LET body == SubSeq(box, Overhead + 1, Len(box)) IN
         IF \E j \in 1..Len(body) : Len(body[j]) # 5 \/ body[j][1] # "box"
         THEN [ok |-> FALSE, chunk |-> <<>>]
         ELSE LET chunk == [j \in 1..Len(body) |-> body[j][5]] IN
              IF box = Seal(chunk, n, k) THEN [ok |-> TRUE, chunk |-> chunk]
              ELSE [ok |-> FALSE, chunk |-> <<>>]

\* data[i:] cut to at most size bytes, i counting from 0
ChunkAt(data, i, size) ==
    IF Len(data) - i >= size THEN SubSeq(data, i + 1, i + size)
    ELSE SubSeq(data, i + 1, Len(data))

RECURSIVE Encrypt_chunks(_, _, _, _, _)
\* crypto.go 159-172: the loop of Encrypt from offset i on, the chunk at
\* offset i sealed under the nonce of number nonces[r]
Encrypt_chunks(data, k, chunkSize, i, nonces) ==
    IF i >= Len(data) THEN <<>>
    ELSE LET n == NonceBytes(Head(nonces)) IN
         n \o Seal(ChunkAt(data, i, chunkSize), n, k)
           \o Encrypt_chunks(data, k, chunkSize, i + chunkSize, Tail(nonces))

\* func (s SecretBoxCipher) Encrypt(data []byte, key []byte) ([]byte, error)
SecretBoxCipher_Encrypt(chunkSize, data, key, nonces) ==
    IF Len(key) # secretBoxKeyLength THEN [err |-> "invalid key length", ct |-> <<>>]
    ELSE [err |-> "", ct |-> Encrypt_chunks(data, key, chunkSize, 0, nonces)]

\* the pieces of Decrypt counted without the authenticator.
decryptChunkSize_NonceOnly(chunkSize) == chunkSize + secretBoxNonceLength

\* line 180: chunkSize := s.ChunkSize + secretBoxDecryptionOffset
decryptChunkSize(chunkSize) == chunkSize + secretBoxDecryptionOffset

RECURSIVE Decrypt_chunks(_, _, _, _)
\* crypto.go 193-204: the loop of Decrypt from offset i on
Decrypt_chunks(data, k, size, i) ==
    IF i >= Len(data) THEN [err |-> "", data |-> <<>>]
    ELSE LET chunk == ChunkAt(data, i, size) IN
         IF Len(chunk) < secretBoxNonceLength THEN [err |-> "panic", data |-> <<>>]
         ELSE LET n == SubSeq(chunk, 1, secretBoxNonceLength)
                  o == Open(SubSeq(chunk, secretBoxNonceLength + 1, Len(chunk)), n, k) IN
              IF ~o.ok THEN [err |-> "decrypt failed", data |-> <<>>]
              ELSE LET rest == Decrypt_chunks(data, k, size, i + size) IN
                   IF rest.err # "" THEN rest
                   ELSE [err |-> "", data |-> o.chunk \o rest.data]

\* func (s SecretBoxCipher) Decrypt(data []byte, key []byte) ([]byte, error)
SecretBoxCipher_Decrypt(chunkSize, data, key) ==
    IF Len(key) # secretBoxKeyLength THEN [err |-> "invalid key length", data |-> <<>>]
    ELSE Decrypt_chunks(data, key, decryptChunkSize(chunkSize), 0)

ChunkSizes == {1, 2}

\* the keys: of 32 bytes (two of them), one byte short and one byte long
CipherKeys ==
    {KeyBytes(secretBoxKeyLength, 1), KeyBytes(secretBoxKeyLength, 2),
     KeyBytes(secretBoxKeyLength - 1, 1), KeyBytes(secretBoxKeyLength + 1, 1)}

\* the plaintexts of at most MaxData bytes
Plaintexts == UNION {[1..len -> {"x", "y"}] : len \in 0..MaxData}

NoCipherResult == [err |-> "none", ct |-> <<>>, data |-> <<>>]

\* a cipher of some chunk size is given a plaintext and a key
InitCipher ==
    /\ InitSessions({"p", "q"}, 0, FALSE)
    /\ store = [Latest |-> 0]
    /\ \E chunkSize \in ChunkSizes, data \in Plaintexts, key \in CipherKeys :
          rd = [kind |-> "cipher", ChunkSize |-> chunkSize, data |-> data, key |-> key,
                with |-> <<>>, enc |-> NoCipherResult, dec |-> NoCipherResult]

\* Encrypt(data, key), genNonce drawing the nonces
Cipher_Encrypt ==
    /\ rd.enc.err = "none"
    /\ \E nonces \in [1..MaxData -> 1..2] :
          LET r == SecretBoxCipher_Encrypt(rd.ChunkSize, rd.data, rd.key, nonces) IN
          rd' = [rd EXCEPT !.enc = [err |-> r.err, ct |-> r.ct, data |-> <<>>]]
    /\ UNCHANGED <<now, sessVars, store>>

\* Decrypt of what Encrypt returned, under some key
Cipher_Decrypt ==
    /\ rd.enc.err # "none" /\ rd.dec.err = "none"
    /\ \E key \in CipherKeys :
          LET r == SecretBoxCipher_Decrypt(rd.ChunkSize, rd.enc.ct, key) IN
          rd' = [rd EXCEPT !.with = key, !.dec = [err |-> r.err, ct |-> <<>>, data |-> r.data]]
    /\ UNCHANGED <<now, sessVars, store>>

NextCipher == Cipher_Encrypt \/ Cipher_Decrypt

SpecCipher == InitCipher /\ [][NextCipher]_vars

NextHM == HMGet \/ Tick

\* Reads of one hashmapStorage object against arbitrary node answers.
SpecHM == Init /\ [][NextHM]_vars

-----------------------------------------------------------------------------
(* session.go on the local KV: one profile, several chats *)

\* the chats the profile of p takes part in, and p's peer in each of them
ChatIDs == {1, 2}

PeerOf(chatID) == IF chatID = 1 THEN "q" ELSE "r"

\* the keys of the local KV that no chat owns: profiles/{id}, global-config
ProfileKey == <<0, "profile">>

GlobalConfigKey == <<0, "global-config">>

\* s.get(key): bolt answers a key that is not there with no bytes, and no
\* bytes decode to nothing (gob: EOF)
Session_has(kv, key) == key \in DOMAIN kv

\* s.set(key, value)
Session_set(kv, key, value) ==
    [k \in DOMAIN kv \cup {key} |-> IF k = key THEN value ELSE kv[k]]

\* What a call on the Session hands back to the step that made it: the local
\* KV it leaves, its error, the keys of the local KV it has read or written,
\* and what it has given the backends to publish.
Outcome(kv, err, touched, out) == [kv |-> kv, err |-> err, touched |-> touched, out |-> out]

\* the one value a call hands back, bound before the caller goes on
Only(S) == CHOOSE x \in S : TRUE

\* SendMessage, lines 488-589, on the local KV; b has passed the size test.
\* draws are the entries getRandom comes up with, f the s.set that fails (1, 3,
\* 4, 6) or the backend write that fails (2 the blob, 5 the pointer), hash
\* what the blob network answers, clock what time.Now() reads.
Session_SendMessage(kv, chatID, b, draws, f, hash, clock) ==
    LET cfg == ConfigKey(chatID) IN
    IF ~Session_has(kv, cfg) THEN Outcome(kv, "getChat", {cfg}, <<>>)
    ELSE
    LET c == kv[cfg]
        data == stamp(b.json, c, clock)
        lk == LookupKey(chatID, c.PeerID)
        lg == ChatLogKey(chatID) IN
    IF ~Session_has(kv, lk) THEN Outcome(kv, "getLookup", {cfg, lk}, <<>>)
    ELSE IF DOMAIN kv[lk] = {} THEN Outcome(kv, "panic", {cfg, lk}, <<>>)
    ELSE
    LET r1 == popRandom(kv[lk], draws[1])
        kv1 == Session_set(kv, lk, r1.l)
        blob == [tag |-> r1.k, ct |-> Encrypt(data, r1.v).ct] IN
    IF f = 1 THEN Outcome(kv, "setLookup", {cfg, lk}, <<>>)
    ELSE IF f = 2 THEN Outcome(kv1, "Storage.Set", {cfg, lk}, <<>>)
    ELSE
    LET kv2 == Session_set(kv1, cfg, [c EXCEPT !.LastSent = hash]) IN
    IF f = 3 THEN Outcome(kv1, "setChat", {cfg, lk}, <<blob>>)
    ELSE IF DOMAIN r1.l = {} THEN Outcome(kv2, "panic", {cfg, lk}, <<blob>>)
    ELSE
    LET r2 == popRandom(r1.l, draws[2])
        kv3 == Session_set(kv2, lk, r2.l)
        pointer == [tag |-> r2.k, ct |-> Encrypt(hash, r2.v).ct] IN
    IF f = 4 THEN Outcome(kv2, "setLookup", {cfg, lk}, <<blob>>)
    ELSE IF f = 5 THEN Outcome(kv3, "Rendezvous.Set", {cfg, lk}, <<blob>>)
    ELSE IF ~Session_has(kv3, lg) THEN Outcome(kv3, "GetChatLog", {cfg, lk, lg}, <<blob, pointer>>)
    ELSE
    LET a == AddEntry(kv3[lg], ChatLogEntry(hash, c.PeerID, data)) IN
    IF a.err # "" THEN Outcome(kv3, a.err, {cfg, lk, lg}, <<blob, pointer>>)
    ELSE IF f = 6 THEN Outcome(kv3, "setChatLog", {cfg, lk, lg}, <<blob, pointer>>)
    ELSE Outcome(Session_set(kv3, lg, a.cl), "", {cfg, lk, lg}, <<blob, pointer>>)

\* getRendezvousHash, lines 314-352, on the local KV: node is what the read
\* node of the peer answers, f the s.set that fails (1 setLookup, 2 setChat).
\* out is the hash handed back.
Session_getRendezvousHash(kv, chatID, peerID, node, f, clock) ==
    LET cfg == ConfigKey(chatID)
        lk == LookupKey(chatID, peerID)
        lg == ChatLogKey(chatID) IN
    IF ~Session_has(kv, cfg) THEN Outcome(kv, "getChat", {cfg}, Nil)
    ELSE IF ~Session_has(kv, lk) THEN Outcome(kv, "getLookup", {cfg, lk}, Nil)
    ELSE
    LET res == hashmapGet(<<node>>, kv[cfg].Latest[peerID], clock) IN
    IF res.err # "" THEN Outcome(kv, res.err, {cfg, lk}, Nil)
    ELSE IF res.bytes.tag = Nil THEN Outcome(kv, "panic", {cfg, lk}, Nil)
    ELSE
    LET c == [kv[cfg] EXCEPT !.Latest[peerID] = res.Latest]
        r == popKey(kv[lk], res.bytes.tag)
        kv1 == Session_set(kv, lk, r.l)
        d == Decrypt(res.bytes.ct, r.v) IN
    IF f = 1 THEN Outcome(kv, "setLookup", {cfg, lk}, Nil)
    ELSE IF d.err # "" THEN Outcome(kv1, d.err, {cfg, lk}, Nil)
    ELSE IF ~Session_has(kv1, lg) THEN Outcome(kv1, "GetChatLog", {cfg, lk, lg}, d.data)
    ELSE IF HashInLog(kv1[lg], d.data) THEN Outcome(kv1, "", {cfg, lk, lg}, Nil)
    ELSE IF f = 2 THEN Outcome(kv1, "setChat", {cfg, lk, lg}, Nil)
    ELSE Outcome(Session_set(kv1, cfg, c), "", {cfg, lk, lg}, d.data)

\* retrieveMessage, lines 354-388, on the local KV: f the s.set that fails
\* (3 setLookup, 4 setChat).  out is the chatData handed back.
Session_retrieveMessage(kv, chatID, hash, peerID, f) ==
    LET cfg == ConfigKey(chatID)
        lk == LookupKey(chatID, peerID) IN
    IF ~Session_has(kv, cfg) THEN Outcome(kv, "getChat", {cfg}, NoData)
    ELSE IF ~Session_has(kv, lk) THEN Outcome(kv, "getLookup", {cfg, lk}, NoData)
    ELSE
    LET b == ipfsGet(hash)
        r == popKey(kv[lk], b.tag)
        kv1 == Session_set(kv, lk, r.l)
        d == Decrypt(b.ct, r.v) IN
    IF r.v = Nil THEN Outcome(kv, "no key", {cfg, lk}, NoData)
    ELSE IF f = 3 THEN Outcome(kv, "setLookup", {cfg, lk}, NoData)
    ELSE IF d.err # "" THEN Outcome(kv1, d.err, {cfg, lk}, NoData)
    ELSE IF f = 4 THEN Outcome(kv1, "setChat", {cfg, lk}, d.data)
    ELSE Outcome(Session_set(kv1, cfg, kv[cfg]), "", {cfg, lk}, d.data)

\* logChatData, lines 390-408, on the local KV: f = 5, setChatLog fails
Session_logChatData(kv, chatID, peerID, hash, data, f) ==
    LET lg == ChatLogKey(chatID) IN
    IF ~Session_has(kv, lg) THEN Outcome(kv, "GetChatLog", {lg}, Nil)
    ELSE
    LET a == AddEntry(kv[lg], ChatLogEntry(hash, peerID, data)) IN
    IF a.err # "" THEN Outcome(kv, a.err, {lg}, Nil)
    ELSE IF f = 5 THEN Outcome(kv, "setChatLog", {lg}, Nil)
    ELSE Outcome(Session_set(kv, lg, a.cl), "", {lg}, Nil)

\* the calls of Strategy.Storage.Get a retrieveMessage has made
Fetched(m) == IF m.err \in {"getChat", "getLookup"} THEN 0 ELSE 1

RECURSIVE Session_recursivelyLogParents(_, _, _, _, _)
\* recursivelyLogParents, lines 410-435, on the local KV.  out counts the
\* blobs the walk has asked the blob network for.
Session_recursivelyLogParents(kv, chatID, peerID, data, f) ==
    LET lg == ChatLogKey(chatID) IN
    IF data.Parent = Nil THEN Outcome(kv, "", {}, 0)
    ELSE IF ~Session_has(kv, lg) THEN Outcome(kv, "GetChatLog", {lg}, 0)
    ELSE IF HashInLog(kv[lg], data.Parent) THEN Outcome(kv, "", {lg}, 0)
    ELSE
    Only({
    IF m.err = "no key" THEN Outcome(m.kv, "", {lg} \cup m.touched, Fetched(m))
    ELSE IF m.err # "" THEN Outcome(m.kv, m.err, {lg} \cup m.touched, Fetched(m))
    ELSE
    Only({
    IF g.err # "" THEN Outcome(g.kv, g.err, {lg} \cup m.touched, Fetched(m))
    ELSE IF m.out.Parent = Nil THEN Outcome(g.kv, "", {lg} \cup m.touched, Fetched(m))
    ELSE Only({Outcome(w.kv, w.err, {lg} \cup m.touched \cup w.touched, Fetched(m) + w.out) :
               w \in {Session_recursivelyLogParents(g.kv, chatID, peerID, m.out, f)}})
    : g \in {Session_logChatData(m.kv, chatID, peerID, data.Parent, m.out, f)}})
    : m \in {Session_retrieveMessage(kv, chatID, data.Parent, peerID, f)}})

\* The body of the loop of RetrieveMessages, lines 449-468, for one peer;
\* every failure ends the work on the peer and nothing else (continue).  out
\* counts the blobs the work on the peer has asked the blob network for.
Session_RetrieveMessages_peer(kv, chatID, peerID, node, f, clock) ==
    Only({
    IF h.out = Nil THEN Outcome(h.kv, h.err, h.touched, 0)
    ELSE
    Only({
    IF m.err # "" THEN Outcome(m.kv, m.err, h.touched \cup m.touched, Fetched(m))
    ELSE
    Only({
    IF g.err # ""
    THEN Outcome(g.kv, g.err, h.touched \cup m.touched \cup g.touched, Fetched(m))
    ELSE Only({Outcome(w.kv, w.err, h.touched \cup m.touched \cup g.touched \cup w.touched,
                       Fetched(m) + w.out) :
               w \in {Session_recursivelyLogParents(g.kv, chatID, peerID, m.out, f)}})
    : g \in {Session_logChatData(m.kv, chatID, peerID, h.out, m.out, f)}})
    : m \in {Session_retrieveMessage(h.kv, chatID, h.out, peerID, f)}})
    : h \in {Session_getRendezvousHash(kv, chatID, peerID, node, f, clock)}})

RECURSIVE Session_RetrieveMessages_range(_, _, _, _, _, _)
\* RetrieveMessages, lines 444-475, on the local KV: getChat, the loop over
\* the peers of the chat without the own one, GetChatLog.  nodes gives, for
\* each peer, what its read node answers.
Session_RetrieveMessages_range(kv, chatID, todo, nodes, f, clock) ==
    IF todo = {} THEN Outcome(kv, "", {}, 0)
    ELSE LET peerID == CHOOSE x \in todo : TRUE IN
         Only({Only({Outcome(rest.kv, "", one.touched \cup rest.touched, one.out + rest.out) :
                     rest \in {Session_RetrieveMessages_range(one.kv, chatID, todo \ {peerID},
                                                              nodes, f, clock)}}) :
               one \in {Session_RetrieveMessages_peer(kv, chatID, peerID, nodes[peerID],
                                                      f, clock)}})

Session_RetrieveMessages(kv, chatID, nodes, f, clock) ==
    LET cfg == ConfigKey(chatID)
        lg == ChatLogKey(chatID) IN
    IF ~Session_has(kv, cfg) THEN Outcome(kv, "getChat", {cfg}, [log |-> <<>>, fetches |-> 0])
    ELSE
    LET c == kv[cfg] IN
    Only({
    IF ~Session_has(r.kv, lg)
    THEN Outcome(r.kv, "GetChatLog", {cfg, lg} \cup r.touched, [log |-> <<>>, fetches |-> r.out])
    ELSE Outcome(r.kv, "", {cfg, lg} \cup r.touched,
                 [log |-> Sorted(r.kv[lg]), fetches |-> r.out])
    : r \in {Session_RetrieveMessages_range(kv, chatID, c.Peers \ {c.PeerID}, nodes, f, clock)}})

\* What q has published in chat 1 and r in chat 2 before p does anything: two
\* messages each, the second naming the first as its parent.  The peer x has
\* popped the tag <<x, 2k-1>> for its k-th blob and <<x, 2k>> for the pointer.
PublishedBy == <<"q", "q", "r", "r">>

PeerData(n) ==
    [Parent |-> IF n % 2 = 1 THEN Nil ELSE HashOf(n - 1), Timestamp |-> 2 - (n % 2),
     TTL |-> defaultChatTTL, Message |-> "a"]

PeerBlob(n) ==
    LET tag == <<PublishedBy[n], 3 - 2 * (n % 2)>> IN
    [tag |-> tag, ct |-> Encrypt(PeerData(n), genLookups(tag[1], LookupCount)[tag]).ct]

PeerPointer(x, k) ==
    LET tag == <<x, 2 * k>>
        n == IF x = "q" THEN k ELSE 2 + k IN
    [ts |-> k, msg |-> [tag |-> tag,
                         ct |-> Encrypt(HashOf(n), genLookups(x, LookupCount)[tag]).ct]]

\* The local KV of p: its profile, the global config, and for each chat the
\* config, the chat log and the lookup tables NewChat has written.
InitChats ==
    /\ now = 3
    /\ chatKV = [s \in Peers |-> [NewChat({"p", "q"}, 0) EXCEPT !.PeerID = s]]
    /\ lookupKV = [s \in Peers |-> [x \in Peers |-> genLookups(x, LookupCount)]]
    /\ logKV = [s \in Peers |-> Nil]
    /\ th = [t \in Threads |-> IdleThread]
    /\ faults = 0
    /\ seen = [s \in Peers |-> [x \in Peers |-> 0]]
    /\ hwm = [s \in Peers |-> [x \in Peers |-> 0]]
    /\ since = [s \in Peers |-> [kept |-> FALSE, at |-> 0 - 1]]
    /\ store = [Latest |-> 0,
                kv |-> [key \in {ProfileKey, GlobalConfigKey}
                              \cup {ConfigKey(id) : id \in ChatIDs}
                              \cup {ChatLogKey(id) : id \in ChatIDs}
                              \cup {LookupKey(id, "p") : id \in ChatIDs}
                              \cup {LookupKey(id, PeerOf(id)) : id \in ChatIDs}
                        |-> CASE key = ProfileKey -> Profile(1, "pw")
                              [] key = GlobalConfigKey -> <<"global-config">>
                              [] key[2] = "config" ->
                                   [NewChat({"p", PeerOf(key[1])}, 0) EXCEPT !.PeerID = "p"]
                              [] key[2] = "chatlog" -> Nil
                              [] OTHER -> genLookups(key[3], LookupCount)]]
    /\ rd = [kind |-> "none", chatID |-> 0, err |-> "", touched |-> {}, f |-> 0,
             fetches |-> 0, before |-> Nil]

\* the backends as q and r have left them
PeersPublished ==
    /\ ipfs = [n \in 1..Len(PublishedBy) |-> PeerBlob(n)]
    /\ hm = [x \in Peers |-> IF x = "p" THEN <<>>
                             ELSE <<PeerPointer(x, 1), PeerPointer(x, 2)>>]

InitPublished == InitChats /\ PeersPublished

\* the entry getRandom draws from a table (of the remaining entries the first),
\* none from an empty one
DrawFrom(l) ==
    IF DOMAIN l = {} THEN {Nil}
    ELSE {k \in getRandom(l) : \A lo \in DOMAIN l : k[2] <= lo[2]}

\* p calls SendMessage(chatID, b)
Chats_SendMessage(chatID) ==
    /\ Len(ipfs) < Len(PublishedBy) + MaxBlobs
    /\ now <= Len(PublishedBy) + MaxBlobs
    /\ \E b \in Msgs, f \in 0..6 :
       /\ f # 0 => faults = 0
       /\ faults' = IF f # 0 THEN faults + 1 ELSE faults
       /\ \E d1 \in DrawFrom(store.kv[LookupKey(chatID, "p")]) :
          \E d2 \in DrawFrom(delete(store.kv[LookupKey(chatID, "p")], d1)) :
          \E r \in {Session_SendMessage(store.kv, chatID, b, <<d1, d2>>, f,
                                        HashOf(Len(ipfs) + 1), now)} :
          /\ store' = [store EXCEPT !.kv = r.kv]
          /\ ipfs' = IF Len(r.out) >= 1 THEN Append(ipfs, r.out[1]) ELSE ipfs
          /\ hm' = IF Len(r.out) = 2
                   THEN [hm EXCEPT !["p"] = Append(@, [ts |-> now, msg |-> r.out[2]])]
                   ELSE hm
          /\ rd' = [kind |-> "send", chatID |-> chatID, err |-> r.err,
                    touched |-> r.touched, f |-> f, fetches |-> 0, before |-> store.kv]
    /\ now' = now + 1
    /\ UNCHANGED <<chatKV, lookupKV, logKV, th, seen, hwm, since>>

\* p calls RetrieveMessages(chatID); the read node of the peer answers with
\* the newest envelope, with an earlier one, or not at all
Chats_RetrieveMessages(chatID) ==
    /\ \E f \in 0..5, fault \in FaultKinds :
       /\ (f # 0 \/ fault # "none") => faults = 0
       /\ faults' = IF f # 0 \/ fault # "none" THEN faults + 1 ELSE faults
       /\ \E node \in NodeAnswer(PeerOf(chatID), fault) :
          \E r \in {Session_RetrieveMessages(store.kv, chatID, [x \in Peers |-> node], f, now)} :
          /\ store' = [store EXCEPT !.kv = r.kv]
          /\ rd' = [kind |-> "retr", chatID |-> chatID, err |-> r.err,
                    touched |-> r.touched, f |-> f, fetches |-> r.out.fetches,
                    before |-> store.kv]
    /\ UNCHANGED <<now, ipfs, hm, chatKV, lookupKV, logKV, th, seen, hwm, since>>

NextChats == \E chatID \in ChatIDs : Chats_SendMessage(chatID) \/ Chats_RetrieveMessages(chatID)

\* p, a member of two chats, sends and retrieves on either, one call at a time;
\* at most one call meets a failing write or a read node that misbehaves.
SpecChats == InitPublished /\ [][NextChats]_vars

(* session.go: the parent walk against a peer that publishes what it likes *)

\* The chains of blobs q can put on the blob network without SendMessage, one
\* blob more than its table has entries: each blob naming the one before it
\* ("long"), the first naming the last as well ("cycle"), each naming itself
\* ("self"), and the long chain with one tag on every blob ("sametag").
ChainKinds == {"long", "cycle", "self", "sametag"}

Chain(kind) ==
    [n \in 1..LookupCount |->
        LET tag == <<"q", IF kind = "sametag" THEN 1
                          ELSE IF n = 1 THEN LookupCount - 1 ELSE n - 1>>
            parent == CASE kind = "self" -> HashOf(n)
                        [] kind = "cycle" /\ n = 1 -> HashOf(LookupCount)
                        [] kind # "self" /\ n > 1 -> HashOf(n - 1)
                        [] OTHER -> Nil
            data == [Parent |-> parent, Timestamp |-> n, TTL |-> defaultChatTTL,
                     Message |-> "a"]
        IN [tag |-> tag, ct |-> Encrypt(data, genLookups("q", LookupCount)[tag]).ct]]

InitWalk ==
    /\ InitChats
    /\ \E kind \in ChainKinds : ipfs = Chain(kind)
    /\ hm = [x \in Peers |-> <<>>]

\* q signs a pointer to a blob of its chain (the model follows the first and
\* the last), under any tag of its table (the first and the last)
Walk_Advertise ==
    /\ Len(hm["q"]) < MaxBlobs
    /\ \E n \in {1, Len(ipfs)}, tag \in getRandom(genLookups("q", LookupCount)) :
          hm' = [hm EXCEPT !["q"] =
                    Append(@, [ts |-> now,
                               msg |-> [tag |-> tag,
                                        ct |-> Encrypt(HashOf(n),
                                                       genLookups("q", LookupCount)[tag]).ct]])]
    /\ UNCHANGED <<now, ipfs, chatKV, lookupKV, logKV, th, faults, seen, hwm, since, store, rd>>

NextWalk == Walk_Advertise \/ Chats_RetrieveMessages(1)

\* q advertises blobs of its chains; p retrieves, one call at a time.
SpecWalk == InitWalk /\ [][NextWalk]_vars

-----------------------------------------------------------------------------
(* Properties of the isolated hashmapStorage object, under SpecHM *)

\* the node is passed over by the loop of getFirstSuccess (continue)
Skipped(node) == node.urlOK /\ node.mhOK /\ (~node.httpOK \/ ~node.parseOK)

\* the last node of the last read is the one whose answer the read examined
Examined ==
    /\ rd.nodes # <<>>
    /\ \A i \in 1..(Len(rd.nodes) - 1) : Skipped(rd.nodes[i])
    /\ LET node == rd.nodes[Len(rd.nodes)] IN
       node.urlOK /\ node.mhOK /\ node.httpOK /\ node.parseOK /\ node.pubOK

Last == rd.nodes[Len(rd.nodes)]

\* the last read handed the timestamp of its last node to updateLatest
Judged == Examined /\ Last.urlHash = Last.pub /\ Last.dataOK

\* the last read was accepted by updateLatest
Accepted == rd.res.err \in {"", "message bytes"}

\* C6: a read whose timestamp is more than 5 s ahead of the clock is rejected as
\* future and Latest stays; else one below Latest is rejected as stale and Latest
\* stays; else it is accepted and Latest becomes the timestamp.  Latest never
\* decreases, whatever the read.
C6_Freshness ==
    /\ store.Latest = rd.res.Latest
    /\ rd.res.Latest >= rd.before
    /\ Judged =>
         IF Last.ts > rd.at + FutureSkew
         THEN rd.res.err = "invalid future timestamp" /\ rd.res.Latest = rd.before
         ELSE IF Last.ts < rd.before
              THEN rd.res.err = "stale timestamp" /\ rd.res.Latest = rd.before
              ELSE Accepted /\ rd.res.Latest = Last.ts

C6_Witness ==
    /\ Judged /\ rd.before > 0
    /\ Last.ts < rd.before
    /\ rd.res.err = "stale timestamp"

\* C7 as stated: a read whose timestamp equals Latest is rejected.
C7_EqualRejected ==
    (Judged /\ Last.ts = rd.before /\ Last.ts <= rd.at + FutureSkew) => ~Accepted

C7_Boundary_Inv ==
    (Judged /\ Last.ts <= rd.at + FutureSkew) =>
        /\ Last.ts = rd.before => Accepted /\ rd.res.Latest = rd.before
        /\ Last.ts = rd.before + 1 => Accepted /\ rd.res.Latest = rd.before + 1
        /\ Last.ts = rd.before - 1 => rd.res.err = "stale timestamp"

C7_Twice ==
    (rd.res.err = "" /\ rd'.nodes = rd.nodes) => rd'.res.err = ""

\* C7, amended: a read whose timestamp equals Latest is accepted and leaves
\* Latest where it is, one with Latest + 1 is accepted, one with Latest - 1 is
\* rejected as stale; so a payload that was read with success is read with
\* success again when it is presented a second time in a row.
C7_Boundary == []C7_Boundary_Inv /\ [][C7_Twice]_vars

C7_Witness ==
    /\ Judged /\ rd.before > 0
    /\ Last.ts = rd.before
    /\ rd.res.err = "" /\ rd.res.bytes = Last.msg

\* C9: a payload whose public key does not hash to the multihash of the node's
\* URL is rejected with an error, no bytes are returned and Latest is what it
\* was before the read.
C9_HashMismatch ==
    (Examined /\ Last.urlHash # Last.pub) =>
        /\ rd.res.err = "payload and endpoint hash mismatch"
        /\ rd.res.bytes = Nil
        /\ rd.res.Latest = rd.before
        /\ store.Latest = rd.before

C9_Witness ==
    /\ Examined /\ Last.urlHash # Last.pub
    /\ Last.dataOK /\ Last.ts > rd.before /\ Last.ts <= rd.at + FutureSkew
    /\ rd.res.err = "payload and endpoint hash mismatch"

-----------------------------------------------------------------------------
(* Properties of the Session *)

\* the messages SendMessage of session x has returned with success
SentBy(x) == {logKV[x][k].ID : k \in {e \in DOMAIN logKV[x] : logKV[x][e].Sender = x}}

\* the content hash the i-th envelope of x points to
EnvTarget(x, i) == hm[x][i].msg.ct[2]

C1_Inv ==
    /\ \A n \in 1..Len(ipfs) :
         /\ ipfs[n].tag \notin DOMAIN lookupKV[ipfs[n].tag[1]][ipfs[n].tag[1]]
         /\ \A m \in 1..Len(ipfs) : m # n => ipfs[m].tag # ipfs[n].tag
    /\ \A x \in Peers : \A i \in 1..Len(hm[x]) :
         /\ hm[x][i].msg.tag \notin DOMAIN lookupKV[x][x]
         /\ \A j \in 1..Len(hm[x]) : j # i => hm[x][j].msg.tag # hm[x][i].msg.tag
         /\ \A n \in 1..Len(ipfs) : ipfs[n].tag # hm[x][i].msg.tag
    /\ \A t \in Threads :
         (th[t].op = "send" /\ th[t].pc \in {"storeBlob", "setRendezvous"}) =>
             th[t].bytes.tag \notin DOMAIN lookupKV[th[t].sess][th[t].sess]

C1_Shrinks ==
    \A s \in Peers, x \in Peers : DOMAIN lookupKV'[s][x] \subseteq DOMAIN lookupKV[s][x]

\* C1: under sequential use, calls stopping at any point included, a persisted
\* lookup table only ever loses entries; the tags that went out with blobs and
\* envelopes are pairwise distinct and none of them is left in the sender's
\* persisted table for a later popRandom to hand out.
C1_ConsumedOnce == []C1_Inv /\ [][C1_Shrinks]_vars

C1_Witness ==
    /\ AllIdle /\ faults > 0
    /\ Len(hm["p"]) >= 1
    /\ Cardinality(DOMAIN lookupKV["p"]["p"]) + 2 * Len(ipfs) < LookupCount - 1
    /\ Cardinality(DOMAIN lookupKV["q"]["p"]) < LookupCount - 1

\* the round of goroutine t has returned, nothing failed while it ran, and every
\* message peer x had sent and published when the session's round before this
\* one began was in the log when this one began
BackfillRound(t, x) ==
    /\ th[t].op = "retr" /\ th[t].pc = "done" /\ th[t].ok
    /\ x # th[t].sess
    /\ faults = th[t].pre.faults
    /\ \A i \in 1..th[t].pre.seen[x] :
         EnvTarget(x, i) \in SentBy(x) => EnvTarget(x, i) \in LogIDs(th[t].pre.log)

\* C3: when a RetrieveMessages round in which nothing fails returns, and the
\* messages of peer x missing from the log at its start were all sent after the
\* session last retrieved, every message x has sent with success is in the log.
C3_Backfill ==
    \A t \in Threads, x \in Peers :
        BackfillRound(t, x) => SentBy(x) \subseteq LogIDs(logKV[th[t].sess])

C3_Witness ==
    \E t \in Threads :
        /\ BackfillRound(t, "p")
        /\ th[t].pre.log = Nil
        /\ Cardinality(SentBy("p")) >= 2
        /\ SentBy("p") \subseteq LogIDs(logKV[th[t].sess])

\* C5 as stated: a timestamp a round accepts from a peer's rendezvous backend is
\* never below one an earlier round of the session accepted from it.
C5_NoReplay ==
    \A t \in Threads :
        (th[t].op = "retr" /\ th[t].pc = "rendezvousPop") =>
            th[t].c.Latest[th[t].peer] = hwm[th[t].sess][th[t].peer]

\* C10 as stated: when RetrieveMessages returns having failed on a peer, the
\* persisted lookup table of the peer, the chat log and the persisted Latest of
\* the peer are what they were when the call began.
C10_FailureLeavesState ==
    \A t \in Threads :
        (th[t].op = "retr" /\ th[t].pc = "done" /\ th[t].ok) =>
            \A x \in th[t].failed :
                /\ lookupKV[th[t].sess][x] = th[t].pre.lookup[x]
                /\ logKV[th[t].sess] = th[t].pre.log
                /\ chatKV[th[t].sess].Latest[x] = th[t].pre.chat.Latest[x]

\* the parents the published chatData name
Parents == [n \in 1..Len(ipfs) |-> ipfs[n].ct[2].Parent]

\* C2 as stated: once two concurrent SendMessage calls on one Session have both
\* returned with their blob and envelope published, the persisted state is that
\* of a serial execution: one log entry per message, two tags gone from the
\* table per message, and no two messages naming the same parent.
C2_Serialised ==
    (AllIdle /\ Len(hm["p"]) = Len(ipfs)) =>
        /\ Cardinality(DOMAIN logKV["p"]) = Len(ipfs)
        /\ Cardinality(DOMAIN lookupKV["p"]["p"]) = (LookupCount - 1) - 2 * Len(ipfs)
        /\ \A n \in 1..Len(ipfs), m \in 1..Len(ipfs) : n # m => Parents[n] # Parents[m]
        /\ chatKV["p"].LastSent \notin {Parents[n] : n \in 1..Len(ipfs)}

\* C4 as stated: while q keeps calling RetrieveMessages and only finitely many
\* backend requests fail, every message SendMessage of p returned with success
\* is eventually in q's chat log.
C4_Delivery ==
    \A n \in 1..MaxBlobs :
        (HashOf(n) \in SentBy("p")) ~> (HashOf(n) \in LogIDs(logKV["q"]))

-----------------------------------------------------------------------------
(* Properties of RetrieveMessages in a chat of three, under SpecGroup *)

\* a step of a RetrieveMessages call of goroutine t that is still running
Running(t) == th[t].op = "retr" /\ th[t].pc # "done"

-----------------------------------------------------------------------------
(* Properties of RetrieveMessages on malformed payloads, under SpecMalformed *)

\* C12: whatever bytes a peer's rendezvous answers with, no RetrieveMessages
\* call dies of a panic.
C12_NoPanic == \A t \in Threads : th[t].op = "retr" => ~th[t].panic

-----------------------------------------------------------------------------
(* Properties of SendMessage, under Spec *)

\* the SendMessage call of goroutine t found fewer than two entries in the
\* sender's own table when it started
Exhausted(t) ==
    /\ th[t].op = "send" /\ ~TooLarge(th[t].b)
    /\ Cardinality(DOMAIN th[t].pre.lookup[th[t].sess]) < 2

\* C13: a SendMessage that starts on an own table of fewer than two entries
\* returns an error (it does not die), publishes no blob and leaves last_sent
\* as it was.
C13_Exhaustion ==
    /\ [](\A t \in Threads :
            Exhausted(t) /\ th[t].pc = "done" => ~th[t].ok /\ ~th[t].panic)
    /\ [][\A t \in Threads : Exhausted(t) =>
            /\ ipfs' = ipfs
            /\ chatKV'[th[t].sess].LastSent = chatKV[th[t].sess].LastSent]_vars

-----------------------------------------------------------------------------
(* Properties of SendMessage, under SpecSend *)

\* goroutine t is in, or enters, or leaves a SendMessage call on more than
\* maxMessageSize bytes
Oversized(t) ==
    \/ th[t].op = "send" /\ th[t].b.len > maxMessageSize
    \/ th'[t].op = "send" /\ th'[t].b.len > maxMessageSize

-----------------------------------------------------------------------------
(* Properties of two RetrieveMessages calls in a row, under SpecTwice *)

\* The RetrieveMessages call of goroutine t is about to return, the session has
\* called RetrieveMessages before, and no peer has published since that
\* earlier call started.
Second(t) ==
    /\ th[t].op = "retr" /\ th[t].pc = "done"
    /\ th[t].pre.since.at >= 0
    /\ \A x \in Peers : Len(hm[x]) = th[t].pre.seen[x]

\* what the call of goroutine t returns is what the call before it returned,
\* and it has taken no key out of a table
SameAgain(t) ==
    /\ th[t].ok
    /\ Sorted(logKV[th[t].sess]) = Sorted(th[t].pre.log)
    /\ logKV[th[t].sess] = th[t].pre.log
    /\ lookupKV[th[t].sess] = th[t].pre.lookup

-----------------------------------------------------------------------------
(* Properties of the chat log, under SpecForged *)

-----------------------------------------------------------------------------
(* Properties of ChatLog.Sorted, under SpecLog *)

\* C17: in the list Sorted makes of a chat log, an entry with the smaller Sent
\* timestamp comes before an entry with the larger one.
C17_SendOrder ==
    \A s \in Peers :
        LET out == Sorted(logKV[s]) IN
        \A i, j \in DOMAIN out : out[i].Sent < out[j].Sent => i < j

-----------------------------------------------------------------------------
(* Properties of one message from p to q, under SpecPair *)

\* the chatData in the n-th blob of the blob network
Published(n) == ipfs[n].ct[2]

\* p's SendMessage call of goroutine t is about to return the log
Sent(t) == th[t].op = "send" /\ th[t].pc = "done" /\ th[t].ok

\* q's RetrieveMessages call of goroutine t, started on an empty log, is about
\* to return, and p has sent one message, with success
FirstRetrieved(t) ==
    /\ th[t].op = "retr" /\ th[t].pc = "done" /\ th[t].sess = "q"
    /\ th[t].pre.log = Nil
    /\ Len(ipfs) = 1 /\ Len(hm["p"]) = 1 /\ Cardinality(DOMAIN logKV["p"]) = 1

\* C18: the blob p's SendMessage publishes carries the message of the caller
\* and its hash is what p keeps as last_sent; and after one RetrieveMessages
\* of q on an empty log, with one message sent by p, q's log holds exactly one
\* entry: its id is that hash, its sender p, its message the one published,
\* its parent empty, its sent and ttl the timestamp and ttl published.
C18_Integrity ==
    \A t \in Threads :
        /\ Sent(t) =>
              /\ \E n \in 1..Len(ipfs) :
                     HashOf(n) = th[t].hash /\ Published(n).Message = th[t].b.json.Message
              /\ chatKV[th[t].sess].LastSent = th[t].hash
        /\ FirstRetrieved(t) =>
              /\ th[t].ok
              /\ Cardinality(DOMAIN logKV["q"]) = 1
              /\ \A k \in DOMAIN logKV["q"] :
                    LET e == logKV["q"][k] IN
                    /\ e.ID = HashOf(1) /\ e.ID = chatKV["p"].LastSent
                    /\ e.Sender = "p"
                    /\ e.Data.Message = Published(1).Message
                    /\ e.Data.Parent = Nil
                    /\ e.Sent = Published(1).Timestamp /\ e.Data.Timestamp = e.Sent
                    /\ e.TTL = Published(1).TTL /\ e.Data.TTL = e.TTL

\* q has retrieved the one message "b" of p, published in a chat with a
\* MaxTTL of 3
C18_Witness ==
    \E t \in Threads :
        /\ FirstRetrieved(t)
        /\ \E k \in DOMAIN logKV["q"] :
              logKV["q"][k].Data.Message = "b" /\ logKV["q"][k].TTL = 3

-----------------------------------------------------------------------------
(* Properties of successful sends, under Spec *)

\* the tags of the sender's own table that the SendMessage call of goroutine t
\* has taken out since it started
Removed(t) ==
    DOMAIN th[t].pre.lookup[th[t].sess] \ DOMAIN lookupKV[th[t].sess][th[t].sess]

\* the log keys the call of goroutine t has added since it started
Added(t) == DOMAIN logKV[th[t].sess] \ DOMAIN th[t].pre.log

\* C19: a successful SendMessage has taken exactly two entries out of the
\* sender's own table, the tag of its blob and the tag of its pointer, and put
\* none in; it has added exactly one entry to the log, under a hash no entry
\* had, and left the others as they were; the tables the sender holds for the
\* other peers are unchanged.  When every send so far has succeeded, k sends
\* leave the own table 2k entries short and the log k entries long.
C19_TwoKeysOneEntry ==
    \A t \in Threads : Sent(t) =>
        LET s == th[t].sess
            n == CHOOSE n \in 1..Len(ipfs) : HashOf(n) = th[t].hash IN
        /\ DOMAIN lookupKV[s][s] \subseteq DOMAIN th[t].pre.lookup[s]
        /\ Cardinality(Removed(t)) = 2
        /\ Removed(t) = {ipfs[n].tag, hm[s][Len(hm[s])].msg.tag}
        /\ \A x \in Peers \ {s} : lookupKV[s][x] = th[t].pre.lookup[x]
        /\ Cardinality(Added(t)) = 1
        /\ \A k \in Added(t) : logKV[s][k].ID = th[t].hash
        /\ th[t].hash \notin LogIDs(th[t].pre.log)
        /\ \A k \in DOMAIN th[t].pre.log :
               k \in DOMAIN logKV[s] /\ logKV[s][k] = th[t].pre.log[k]
        /\ faults = 0 /\ Len(hm[s]) = Len(ipfs) =>
               /\ Cardinality(DOMAIN lookupKV[s][s]) = LookupCount - 1 - 2 * Len(ipfs)
               /\ Cardinality(DOMAIN logKV[s]) = Len(ipfs)

\* the second of two successful sends is about to return
C19_Witness ==
    \E t \in Threads :
        /\ Sent(t) /\ faults = 0
        /\ Len(ipfs) = 2 /\ Len(hm[th[t].sess]) = 2
        /\ Cardinality(DOMAIN logKV[th[t].sess]) = 2
        /\ Cardinality(DOMAIN lookupKV[th[t].sess][th[t].sess]) = LookupCount - 5

-----------------------------------------------------------------------------
(* Properties of the sender's chain, under SpecSend *)

\* the SendMessage call of goroutine t has published its blob
HasPublished(t) == th[t].op = "send" /\ th[t].hash # Nil

\* C20: whatever parent, timestamp and ttl the caller's JSON names, the
\* chatData SendMessage publishes has the chat's last_sent at the start of the
\* call as parent, the time of the call as timestamp, and as ttl the chat's
\* MaxTTL if positive, else 604800; a successful send leaves the returned hash
\* in last_sent; so the first blob has no parent and every later one has the
\* hash of the blob before it.
C20_CausalChain ==
    /\ \A t \in Threads : HasPublished(t) =>
          LET s == th[t].sess
              n == CHOOSE n \in 1..Len(ipfs) : HashOf(n) = th[t].hash IN
          /\ Published(n).Parent = th[t].pre.chat.LastSent
          /\ Published(n).Timestamp = now
          /\ Published(n).TTL = IF chatKV[s].MaxTTL > 0 THEN chatKV[s].MaxTTL ELSE 604800
          /\ Published(n).Message = th[t].b.json.Message
          /\ Sent(t) => chatKV[s].LastSent = th[t].hash
    /\ \A n \in 1..Len(ipfs) :
          Published(n).Parent = IF n = 1 THEN Nil ELSE HashOf(n - 1)

\* the second send of a chat with a MaxTTL of 3 is about to return, its caller
\* having named a parent, a timestamp and a ttl of its own
C20_Witness ==
    \E t \in Threads :
        /\ Sent(t) /\ Len(ipfs) = 2
        /\ th[t].b.json.Parent # Nil /\ th[t].b.json.Parent # th[t].pre.chat.LastSent
        /\ th[t].b.json.Timestamp = 7 /\ th[t].b.json.TTL = 9
        /\ chatKV[th[t].sess].MaxTTL = 3

-----------------------------------------------------------------------------
(* Properties of sends that stop early, under Spec *)

\* the SendMessage call of goroutine t has not published its blob
Unpublished(t) == th[t].op = "send" /\ th[t].hash = Nil

\* C21: as long as a SendMessage has not published its blob, and when it
\* stops before doing so, the persisted last_sent and chat log are what they
\* were when it started, and no step of it writes to the blob network or to
\* the rendezvous.
C21_NoEffect ==
    /\ [](\A t \in Threads : Unpublished(t) =>
            /\ chatKV[th[t].sess].LastSent = th[t].pre.chat.LastSent
            /\ logKV[th[t].sess] = th[t].pre.log)
    /\ [][\A t \in Threads :
            (th[t].op = "idle" \/ Unpublished(t)) /\ Unpublished(t)' =>
                UNCHANGED <<ipfs, hm>>]_vars

\* after an earlier send has gone through, a send has stopped before
\* publishing, with a key of the table spent
C21_Witness ==
    \E t \in Threads :
        /\ Unpublished(t) /\ th[t].pc = "done" /\ ~th[t].ok /\ ~th[t].panic
        /\ th[t].pre.chat.LastSent # Nil /\ th[t].pre.log # Nil
        /\ lookupKV[th[t].sess] # th[t].pre.lookup

-----------------------------------------------------------------------------
(* Properties of the consensus rules, under SpecStorage *)

\* the last call was made on an object of rule FirstSuccess with nodes, and,
\* for a pointer write, with a payload to send
FirstSuccessCall ==
    /\ rd.kind # "none" /\ rd.nodes # <<>>
    /\ store.ReadRule = "firstSuccess"
    /\ rd.kind = "pointer write" => rd.signatures > 0 /\ rd.signOK

\* the attempt of the last call on its i-th node, taken alone, does not fail
Serves(i) ==
    LET node == rd.nodes[i] IN
    IF rd.kind = "pointer read"
    THEN /\ node.urlOK /\ node.mhOK /\ node.httpOK /\ node.parseOK /\ node.pubOK
         /\ node.urlHash = node.pub /\ node.dataOK /\ node.msgOK
         /\ node.ts >= rd.before /\ node.ts <= rd.at + FutureSkew
    ELSE node.urlOK /\ node.connOK /\ node.status < 400

\* the last call returned the response of its i-th node
ReturnedOf(i) ==
    /\ rd.res.err = ""
    /\ rd.kind = "pointer read" => rd.res.bytes = rd.nodes[i].msg
    /\ rd.kind = "blob read" => rd.res.bytes = rd.nodes[i].body
    /\ rd.kind = "blob write" => rd.res.hash = rd.nodes[i].hash

\* C22: under FirstSuccess a call returns the response of the first of its
\* nodes whose attempt does not fail, whatever the nodes before it failed of,
\* and fails with 'no servers available' when, and only when, every node fails.
C22_FirstSuccess ==
    FirstSuccessCall =>
        LET good == {i \in 1..Len(rd.nodes) : Serves(i)} IN
        IF good = {}
        THEN rd.res.err = "no servers available"
        ELSE ReturnedOf(CHOOSE i \in good : \A j \in good : i <= j)

\* the i-th node of the last call answered with a connection error or with a
\* status of 400 or above
TransportError(i) ==
    IF rd.kind = "pointer read" THEN rd.nodes[i].urlOK /\ ~rd.nodes[i].httpOK
    ELSE rd.nodes[i].urlOK /\ (~rd.nodes[i].connOK \/ rd.nodes[i].status >= 400)

\* C23: a call under FirstSuccess does not die of a node's transport error,
\* and what it returns as a success is not the response of a node that
\* answered with a connection error or a status of 400 or above.
C23_TransportErrors ==
    FirstSuccessCall =>
        /\ rd.res.err # "panic"
        /\ rd.res.err = "" =>
              IF rd.kind = "pointer read"
              THEN \A i \in 1..Len(rd.nodes) : TransportError(i) => rd.res.bytes # rd.nodes[i].msg
              ELSE ~TransportError(rd.res.from)

\* the last call was made on a storage whose rule is not FirstSuccess
OtherRuleCall ==
    /\ rd.kind # "none"
    /\ (IF rd.kind \in {"blob read", "pointer read"} THEN store.ReadRule ELSE store.WriteRule)
           # "firstSuccess"

\* C24: under a rule other than FirstSuccess a Get fails with the read rule's
\* not-implemented error and a Set with the write rule's, no node is
\* contacted and nothing is returned; with an empty node list the call fails
\* with the no-nodes-configured error instead.
C24_NotImplemented ==
    OtherRuleCall =>
        LET read == rd.kind \in {"blob read", "pointer read"} IN
        /\ rd.res.tried = 0
        /\ rd.res.bytes = Nil
        /\ rd.res.err =
              IF Len(rd.nodes) = 0
              THEN (IF read THEN "no read nodes configured" ELSE "no write nodes configured")
              ELSE (IF read THEN "This readRule is not yet implemented"
                            ELSE "This writeRule is not yet implemented")

\* the last call of NewChat drew a chat id and returned an error
NewChatFailed == rd.kind = "NewChat" /\ rd.id # 0 /\ rd.res.err # ""

\* no key of the chat the last call of NewChat drew is in the store, and the
\* handshake is the one the call found
NothingLeft == (\A k \in store.keys : k[1] # rd.id) /\ store.hs = rd.hs

\* C25: whenever NewChat returns an error after the chat id was
\* chosen, no key below chats/{chat_id}/{profile_id}/ is left in the local
\* store and the active handshake is unchanged.
C25_AllOrNothing == NewChatFailed => NothingLeft

\* The keys of a failed NewChat are gone whenever the cleanup was not needed
\* or its List and every Delete succeeded.
AllOrNothingCleaned ==
    NewChatFailed /\ rd.cleanup \in {"none", "done"} => NothingLeft

\* the step is a call of NewChat
NewChatCall == rd'.calls # rd.calls

\* what the store of p holds right after the NewChat that returned rd'.id
FreshChat ==
    LET c == chatKV'["p"] IN
    /\ c.PeerID \in c.Peers
    /\ {k \in store'.keys : k[1] = rd'.id /\ k[2] = "lookups"}
           = {LookupKey(rd'.id, x) : x \in c.Peers}
    /\ \A x \in c.Peers : DOMAIN lookupKV'["p"][x] # {}
    /\ ChatLogKey(rd'.id) \in store'.keys /\ logKV'["p"] = Nil
    /\ ConfigKey(rd'.id) \in store'.keys /\ c.LastSent = Nil
    /\ store'.hs = EmptyHandshake

\* C26: from a successful NewChat on, through every SendMessage and
\* RetrieveMessages, the own peer id of the persisted chat is one of its
\* peers; right after the NewChat there is one lookup table per peer, an
\* empty chat log, an empty last_sent and an empty handshake; and a NewChat
\* on a handshake that expects fewer than 2 peers, or another number than it
\* holds negotiators, fails and writes nothing.
C26_NewChat ==
    /\ [](store.chatID # 0 => chatKV["p"].PeerID \in chatKV["p"].Peers)
    /\ [][NewChatCall =>
            /\ rd'.res.err = "" => FreshChat
            /\ (store.hs.PeerTotal < 2
                  \/ store.hs.PeerTotal # Cardinality(store.hs.Negotiators)) =>
                 /\ rd'.res.err # ""
                 /\ UNCHANGED <<store, chatKV, lookupKV, logKV>>]_vars

\* p has created its chat, sent in it and retrieved a message of q
C26_Witness ==
    /\ store.chatID # 0
    /\ chatKV["p"].LastSent # Nil
    /\ logKV["p"] # Nil
    /\ chatKV["p"].PeerID = "p" /\ chatKV["p"].Peers = {"p", "q"}

\* the profiles of the store that the password of the last login opens
Opened == {i \in 1..Len(store.profiles) : store.profiles[i] = Profile(store.profiles[i].id, rd.password)}

C28_Expired ==
    /\ store.session # NoSession
    /\ store.clock - store.session.startTime > store.session.ttl
    /\ th[1].op = "send" /\ th[1].pc = "done"
    => ~th[1].ok

\* the table peer n derived is the one the claim describes
CountMinusOne(n) ==
    LET in == store.derived[n].in
        res == store.derived[n].res
        tags == argon2_IDKey(in.pepper, in.entropy[2], in.count * lookupHashLength)
        keys == argon2_IDKey(in.entropy[1], in.entropy[3], in.count * secretBoxKeyLength)
        tag(i) == base64(SubSeq(tags, (i - 1) * lookupHashLength + 1, i * lookupHashLength))
    IN  IF in.count < 1 THEN res.err # "" /\ res.lookups = Nil
        ELSE /\ res.err = ""
             /\ Cardinality(DOMAIN res.lookups) = in.count - 1
             /\ \A i \in 1..(in.count - 1) :
                   /\ tag(i) \in DOMAIN res.lookups
                   /\ res.lookups[tag(i)] =
                        SubSeq(keys, (i - 1) * secretBoxKeyLength + 1, i * secretBoxKeyLength)

\* C29: genLookups with count >= 1 makes the entries 1 .. count-1, entry i of
\* the tag bytes [(i-1)*24, i*24) and the key bytes [(i-1)*32, i*32), count-1
\* entries in all; with count < 1 it fails; and two peers that derive from
\* the same pepper and entropy hold the same table.
C29_CountMinusOne ==
    /\ \A n \in 1..2 :
          store.derived[n].in # Nil /\ store.derived[n].in.cipherType = "SecretBox"
              => CountMinusOne(n)
    /\ store.derived[1].in # Nil /\ store.derived[1].in = store.derived[2].in
          => store.derived[1].res = store.derived[2].res

\* both peers derived from the same pepper and entropy with the largest count
C29_Witness ==
    /\ store.derived[1].in # Nil
    /\ store.derived[1].in = store.derived[2].in
    /\ store.derived[1].in.count = MaxCount
    /\ store.derived[1].in.cipherType = "SecretBox"
    /\ Cardinality(DOMAIN store.derived[1].res.lookups) = MaxCount - 1

\* the number of chunks Encrypt cuts len bytes into
Chunks(len, chunkSize) == (len + chunkSize - 1) \div chunkSize

\* C30: what Encrypt returns for a plaintext under a key of 32 bytes is cut
\* by Decrypt, under the same key and chunk size, into the sealed chunks of
\* ChunkSize + 40 bytes that Encrypt produced, and decrypts to the plaintext;
\* with a key that is not 32 bytes long Encrypt and Decrypt fail with the
\* key-length error and return nothing.
C30_RoundTrip ==
    /\ rd.enc.err # "none" =>
          IF Len(rd.key) = 32
          THEN /\ rd.enc.err = ""
               /\ Len(rd.enc.ct) = Len(rd.data) + 40 * Chunks(Len(rd.data), rd.ChunkSize)
          ELSE rd.enc.err = "invalid key length" /\ rd.enc.ct = <<>>
    /\ rd.dec.err # "none" =>
          IF Len(rd.with) # 32
          THEN rd.dec.err = "invalid key length" /\ rd.dec.data = <<>>
          ELSE rd.with = rd.key => rd.dec.err = "" /\ rd.dec.data = rd.data

\* a plaintext of three bytes, cut into two chunks of which the last is
\* short, came back from Decrypt
C30_Witness ==
    /\ Len(rd.data) = 3 /\ rd.ChunkSize = 2
    /\ Len(rd.key) = 32 /\ rd.with = rd.key
    /\ rd.dec.err = "" /\ rd.dec.data = rd.data

-----------------------------------------------------------------------------
(* Properties of the chats of one profile, under SpecChats *)

\* the keys of the local KV under chats/{id}/{profile}/
KeysOf(kv, id) == {key \in DOMAIN kv : key[1] = id}

\* the step is a call on chat rd'.chatID: what it has read or written lies
\* under that chat, and every other key is there as before with the value it had
C31_Frame ==
    /\ rd'.touched \subseteq {key \in DOMAIN store.kv \cup DOMAIN store'.kv : key[1] = rd'.chatID}
    /\ \A key \in DOMAIN store.kv \cup DOMAIN store'.kv :
          key[1] # rd'.chatID =>
             /\ key \in DOMAIN store.kv /\ key \in DOMAIN store'.kv
             /\ store'.kv[key] = store.kv[key]

\* C31: a SendMessage or RetrieveMessages on chat X, failed or not, reads and
\* writes only keys of the local KV under chats/X/{profile}/; the config, the
\* chat log and the lookup tables of every other chat, the profile and the
\* global config are left as they were.
C31_ChatsIndependent == [][C31_Frame]_vars

\* p has sent on chat 1 and logged a message of r in chat 2, and a send on
\* chat 1 has just failed after its blob went out
C31_Witness ==
    /\ rd.kind = "send" /\ rd.chatID = 1 /\ rd.err = "setLookup" /\ rd.f = 4
    /\ store.kv[ConfigKey(1)].LastSent # Nil
    /\ DOMAIN store.kv[ChatLogKey(1)] # {}
    /\ DOMAIN store.kv[ChatLogKey(2)] # {}
    /\ store.kv[ConfigKey(2)].LastSent = Nil

-----------------------------------------------------------------------------
(* Properties of the order of the writes of SendMessage, under Spec *)

\* the blobs x has published, by their place on the blob network
BlobsOf(x) == {n \in 1..Len(ipfs) : ipfs[n].tag[1] = x}

\* every pointer x has advertised names a blob x has published
C32_Inv ==
    \A x \in Peers : \A i \in 1..Len(hm[x]) :
        \E n \in BlobsOf(x) : EnvTarget(x, i) = HashOf(n)

\* a step that writes to the rendezvous of x finds the blob of the call
\* published and its hash persisted as last_sent, and what it writes is that
\* hash sealed under the key of the tag that goes with it
C32_Step ==
    \A x \in Peers : hm'[x] # hm[x] =>
        /\ Len(hm'[x]) = Len(hm[x]) + 1
        /\ \A i \in 1..Len(hm[x]) : hm'[x][i] = hm[x][i]
        /\ ipfs' = ipfs
        /\ \E n \in BlobsOf(x) :
              /\ \A m \in BlobsOf(x) : m <= n
              /\ chatKV[x].LastSent = HashOf(n)
              /\ hm'[x][Len(hm'[x])].msg.ct =
                    Encrypt(HashOf(n), genLookups(x, LookupCount)[hm'[x][Len(hm'[x])].msg.tag]).ct

-----------------------------------------------------------------------------
(* Properties of the parent walk, under SpecWalk *)

\* the entries of the table p keeps for the peer of the chat
TableOf(kv, chatID) == DOMAIN kv[LookupKey(chatID, PeerOf(chatID))]

\* C33: RetrieveMessages returns whatever chain of parents the peer has
\* published, cyclic or longer than the table: every blob it fetches either
\* ends the work on the peer or costs the peer's table an entry, so that a call
\* fetches no more blobs than the table had entries when it started.
C33_WalkBounded ==
    rd.kind = "retr" =>
        /\ rd.fetches <= Cardinality(TableOf(rd.before, rd.chatID))
        /\ rd.fetches <= 1 + Cardinality(TableOf(rd.before, rd.chatID) \ TableOf(store.kv, rd.chatID))
        /\ TableOf(store.kv, rd.chatID) \subseteq TableOf(rd.before, rd.chatID)

\* a call has walked a chain of parents until the table had no key left
C33_Witness ==
    /\ rd.kind = "retr" /\ rd.fetches = LookupCount - 1
    /\ TableOf(store.kv, 1) = {}
    /\ Cardinality(DOMAIN store.kv[ChatLogKey(1)]) = rd.fetches - 1

-----------------------------------------------------------------------------
(* Properties of the peers a call works on, under SpecForged *)

\* the own peer id of the chat of the session goroutine t works on
OwnID(t) == chatKV[th[t].sess].PeerID

\* a round of RetrieveMessages sets out with every peer of the chat but the
\* own one, returns when none is left, and is never at work on the own one
C34_Inv ==
    \A t \in Threads : th[t].op = "retr" =>
        /\ OwnID(t) \notin th[t].todo
        /\ th[t].pc \notin {"range", "done"} => th[t].peer # OwnID(t)

C34_Step ==
    \A t \in Threads :
        /\ (th[t].op = "idle" /\ th'[t].op = "retr") =>
              th'[t].todo = chatKV[th'[t].sess].Peers \ {chatKV[th'[t].sess].PeerID}
        /\ (th[t].op = "retr" /\ th[t].pc = "range" /\ th'[t].pc = "done" /\ th'[t].ok) =>
              th[t].todo = {}
        /\ th[t].op = "retr" =>
              /\ lookupKV'[th[t].sess][OwnID(t)] = lookupKV[th[t].sess][OwnID(t)]
              /\ chatKV'[th[t].sess].LastSent = chatKV[th[t].sess].LastSent
              /\ hwm'[th[t].sess][OwnID(t)] = hwm[th[t].sess][OwnID(t)]
        /\ th[t].op = "send" =>
              /\ \A x \in Peers \ {OwnID(t)} :
                    lookupKV'[th[t].sess][x] = lookupKV[th[t].sess][x]
              /\ \A tag \in DOMAIN th'[t].l : tag[1] = OwnID(t)

\* C34: RetrieveMessages works on every peer of the chat except the own one:
\* it never reads the rendezvous of the own peer id and leaves the own lookup
\* table and last_sent as they are; SendMessage reads and writes no lookup
\* table but the own one.
C34_ExceptSelf == []C34_Inv /\ [][C34_Step]_vars

\* q, which has sent a message itself, has retrieved and logged one of p
C34_Witness ==
    /\ th[1].op = "retr" /\ th[1].sess = "q" /\ th[1].pc = "done" /\ th[1].ok
    /\ Len(hm["q"]) >= 1
    /\ chatKV["q"].LastSent # Nil
    /\ \E k \in DOMAIN logKV["q"] : logKV["q"][k].Sender = "p"

-----------------------------------------------------------------------------
(* Properties of the test for a hash already logged, under SpecFragment *)

\* goroutine t has the pointer of the peer open: the hash it names
PointerHash(t) == Decrypt(th[t].bytes.ct, th[t].key)

AtLogTest(t) ==
    /\ th[t].op = "retr" /\ th[t].pc = "rendezvousDecrypt"
    /\ PointerHash(t).err = ""

\* the hash is part of a key of the log: the peer is left for the round with
\* its table, the log and the blob network as they are
C35_Skips ==
    \A t \in Threads :
        (AtLogTest(t) /\ \E key \in DOMAIN logKV[th[t].sess] : Contains(key, PointerHash(t).data)) =>
            /\ th'[t].pc = "range" /\ th'[t].peer \notin th'[t].todo
            /\ lookupKV' = lookupKV /\ logKV' = logKV /\ chatKV' = chatKV

\* the hash is the id of no entry of the log: the call goes on with it
C35_GoesOn ==
    \A t \in Threads :
        (AtLogTest(t) /\ PointerHash(t).data \notin LogIDs(logKV[th[t].sess])) =>
            th'[t].pc = "rendezvousSetChat" /\ th'[t].hash = PointerHash(t).data

\* C35: when the hash a peer's pointer decrypts to is contained in a key of the
\* chat log, RetrieveMessages leaves the peer for the round, fetching no blob,
\* popping no message key and writing no log entry; a hash that is the id of
\* no log entry is never skipped by this test.
C35_SkipsLoggedOnly == [][C35_Skips /\ C35_GoesOn]_vars

-----------------------------------------------------------------------------
(* Properties of a pointer under a tag the table does not hold, under SpecGroup *)

\* goroutine t has read a payload of the peer whose tag is not in the table
\* it keeps for the peer: before popKey, and after it with no key in hand
AbsentTag(t) ==
    /\ th[t].op = "retr" /\ th[t].bytes.tag # Nil
    /\ \/ th[t].pc = "rendezvousPop" /\ th[t].bytes.tag \notin DOMAIN th[t].l
       \/ th[t].pc = "rendezvousDecrypt" /\ th[t].key = Nil

C36_Step ==
    \A t \in Threads : AbsentTag(t) =>
        /\ \A x \in Peers :
              DOMAIN lookupKV'[th[t].sess][x] = DOMAIN lookupKV[th[t].sess][x]
        /\ lookupKV'[th[t].sess] = lookupKV[th[t].sess]
        /\ logKV'[th[t].sess] = logKV[th[t].sess]
        /\ chatKV'[th[t].sess] = chatKV[th[t].sess]
        /\ th[t].pc = "rendezvousPop" => AbsentTag(t)'
        /\ th[t].pc = "rendezvousDecrypt" =>
              th'[t].pc = "range" /\ th'[t].peer \notin th'[t].todo

\* C36: when the tag at the front of a peer's rendezvous payload is not in
\* the table kept for that peer, RetrieveMessages leaves the peer for the
\* round and the persisted lookup tables, chat log and chat config, the
\* peer's high-water mark in it included, are what they were.
C36_AbsentTagNoOp == [][C36_Step]_vars

\* q reads, in a later round, the envelope whose pointer it has used before
C36_Witness ==
    /\ th[1].pc = "rendezvousDecrypt" /\ AbsentTag(1)
    /\ th[1].sess = "q" /\ th[1].peer = "p"
    /\ lookupKV["q"]["p"] = th[1].pre.lookup["p"]
    /\ DOMAIN lookupKV["q"]["p"] # {}
    /\ chatKV["q"] = th[1].pre.chat /\ logKV["q"] = th[1].pre.log
    /\ DOMAIN logKV["q"] # {}

-----------------------------------------------------------------------------
(* Properties of the chat after a send that failed, under SpecLoss *)

\* C37: a SendMessage that stops after its blob is out and before its pointer
\* is leaves a chat that works: a later SendMessage fails only if it is stopped
\* itself or finds fewer than two entries in the own table, and when a round of
\* the peer's RetrieveMessages is over, every message SendMessage has returned
\* with success is in the peer's log.
C37_LossNotCorruption ==
    /\ (th[1].op = "retr" /\ th[1].pc = "done") =>
           \A id \in SentBy("p") : \E k \in DOMAIN logKV["q"] :
               logKV["q"][k].ID = id /\ logKV["q"][k].Sender = "p"
    /\ (th[1].op = "send" /\ th[1].pc = "done" /\ ~th[1].ok) =>
           \/ faults > th[1].pre.faults
           \/ th[1].panic /\ Cardinality(DOMAIN th[1].pre.lookup["p"]) < 2

\* a send of p stopped between its blob and its pointer; p has sent again,
\* and q's round has logged what p sent
C37_Witness ==
    /\ th[1].op = "retr" /\ th[1].pc = "done"
    /\ faults > 0 /\ Len(ipfs) > Len(hm["p"])
    /\ \E n \in 2..Len(ipfs) : HashOf(n) \in SentBy("p") /\ HashOf(n - 1) \notin SentBy("p")
    /\ SentBy("p") \subseteq LogIDs(logKV["q"])

\* no SendMessage is at work on the session of s
NoSendInFlight(s) ==
    \A t \in Threads : ~(th[t].op = "send" /\ th[t].sess = s /\ th[t].pc # "done")

\* C38: once a SendMessage has returned, with success or with an error, the
\* persisted last_sent is empty or the id of an entry of the own chat log
\* whose sender is the own peer id.
C38_HeadInOwnLog ==
    \A s \in Peers : NoSendInFlight(s) =>
        \/ chatKV[s].LastSent = Nil
        \/ \E k \in DOMAIN logKV[s] :
              logKV[s][k].ID = chatKV[s].LastSent /\ logKV[s][k].Sender = chatKV[s].PeerID

-----------------------------------------------------------------------------
(* Properties of the two copies of a lookup table, under SpecBoth *)

\* C39: with one call at a time and backends that answer with what the
\* sender has published, every tag still in a peer's own lookup table is still
\* in the copy each other peer of the chat keeps of that table, with the same
\* key: the receiver holds the keys of whatever the sender sends next.
C39_TablesAgree ==
    \A P \in Peers, Q \in Peers :
        (P \in chatKV[Q].Peers /\ Q \in chatKV[P].Peers) =>
            \A tag \in DOMAIN lookupKV[P][P] :
                /\ tag \in DOMAIN lookupKV[Q][P]
                /\ lookupKV[Q][P][tag] = lookupKV[P][P][tag]

\* p and q have each sent, and each has logged the message of the other
C39_Witness ==
    /\ AllIdle
    /\ \E k \in DOMAIN logKV["q"] : logKV["q"][k].Sender = "p"
    /\ \E k \in DOMAIN logKV["p"] : logKV["p"][k].Sender = "q"
    /\ Cardinality(DOMAIN lookupKV["p"]["p"]) = LookupCount - 3
    /\ Cardinality(DOMAIN lookupKV["q"]["p"]) = LookupCount - 3
    /\ Cardinality(DOMAIN lookupKV["p"]["q"]) = LookupCount - 3

-----------------------------------------------------------------------------
(* Properties of the handle on the local KV, under SpecOpen *)

\* C40: when NewSession has returned an error (no profile found, invalid
\* password, storage.List failed), the handle it opened on the storage file
\* is released: no handle without a Session holds the lock, and a NewSession
\* waits for the lock only while a Session is open.
C40_HandleReleased ==
    /\ (rd.kind = "login" /\ rd.res.err \in {"no profile found", "invalid password", "list"}) =>
           ~store.flock
    /\ (rd.kind = "login" /\ rd.res.err = "blocked") => store.session # NoSession
====
